---- MODULE Spec2Model ----
(***************************************************************************)
(* A model of the Open Inbox add-on (src/main.py): the resumable run of    *)
(* OpenInbox.main with its checkpoint, the metadata extraction functions,  *)
(* the SQLite store built by create_database and the deployment to the     *)
(* sink.                                                                   *)
(*                                                                         *)
(* Python values are modelled as follows.  A str is a TLA+ string.  An     *)
(* Optional value is a sequence of length at most one: <<>> is None and    *)
(* <<v>> is the value v.  A datetime is a tuple of integers.               *)
(***************************************************************************)
EXTENDS Integers, Sequences, FiniteSets, TLC

(***************************************************************************)
(* Strings                                                                 *)
(***************************************************************************)

NoneVal == <<>>

Some(v) == <<v>>

\* Python truthiness of an Optional[str]: None and "" are falsy.
Truthy(o) == o # <<>> /\ o[1] # ""

At(s, ix) == SubSeq(s, ix, ix)

\* The characters str.strip() removes and the regex class \s matches.
Whitespace == {" ", "\t", "\n", "\r", "\f"}

IsSpace(c) == c \in Whitespace

\* The characters the regex class [^\r\n] rejects.
IsNewline(c) == c \in {"\n", "\r"}

\* Is character c somewhere in string s ('c' in s).
Contains(s, c) == \E ix \in 1..Len(s) : At(s, ix) = c

UpperLetters == "ABCDEFGHIJKLMNOPQRSTUVWXYZ"

LowerLetters == "abcdefghijklmnopqrstuvwxyz"

Lower(c) ==
    IF Contains(UpperLetters, c)
    THEN At(LowerLetters, CHOOSE ix \in 1..26 : At(UpperLetters, ix) = c)
    ELSE c

Upper(c) ==
    IF Contains(LowerLetters, c)
    THEN At(UpperLetters, CHOOSE ix \in 1..26 : At(LowerLetters, ix) = c)
    ELSE c

\* The first index j >= from at which s has a character satisfying the stop
\* test, or Len(s) + 1 when there is none; stop is given as a set of indices.
FirstIn(stops, from, n) ==
    CHOOSE j \in from..(n + 1) :
        /\ (j = n + 1 \/ j \in stops)
        /\ \A k \in from..(j - 1) : k \notin stops

\* str.strip(chars): drop the leading and trailing characters of the set.
StripChars(s, chars) ==
    LET n == Len(s)
        keep == {ix \in 1..n : At(s, ix) \notin chars}
    IN  IF keep = {} THEN ""
        ELSE LET lo == CHOOSE ix \in keep : \A k \in 1..(ix - 1) : k \notin keep
                 hi == CHOOSE ix \in keep : \A k \in (ix + 1)..n : k \notin keep
             IN  SubSeq(s, lo, hi)

\* str.strip(): drop leading and trailing whitespace.
Strip(s) == StripChars(s, Whitespace)

\* s.split(sep)[0]: the part of s before the first occurrence of sep.
SplitFirst(s, sep) ==
    LET n == Len(s)
        j == FirstIn({ix \in 1..n : At(s, ix) = sep}, 1, n)
    IN  SubSeq(s, 1, j - 1)

\* s[:k], Python's slice of the first k characters.
\* A faulty variant of Prefix: the slice is one character short.
PrefixShort(s, k) == IF Len(s) > k THEN SubSeq(s, 1, k - 1) ELSE s

Prefix(s, k) == IF Len(s) > k THEN SubSeq(s, 1, k) ELSE s

\* s.replace('.', ' ').replace('_', ' ').title() of parse_person_string:
\* separators become spaces, the first letter of every run of letters is
\* upper-cased and the others lower-cased.
RECURSIVE TitleFrom(_, _, _)
TitleFrom(s, ix, prevLetter) ==
    IF ix > Len(s) THEN ""
    ELSE LET c0 == At(s, ix)
             c == IF c0 \in {".", "_"} THEN " " ELSE c0
             letter == Contains(UpperLetters, c) \/ Contains(LowerLetters, c)
             out == IF letter THEN (IF prevLetter THEN Lower(c) ELSE Upper(c)) ELSE c
         IN  out \o TitleFrom(s, ix + 1, letter)

(***************************************************************************)
(* parse_person_string                                                     *)
(***************************************************************************)

\* re.match(r'^(.*?)\s*<([^>]+@[^>]+)>$', s): the positions j of a '<' that
\* the pattern can use.  The text after j up to the final '>' holds no '>'
\* and has an '@' with a character on both sides; before j come group 1
\* (no newline in it) and then whitespace only.
AngleCandidates(s) ==
    LET n == Len(s)
    IN  IF n = 0 \/ At(s, n) # ">" THEN {}
        ELSE {j \in 1..(n - 1) :
                /\ At(s, j) = "<"
                /\ \A k \in (j + 1)..(n - 1) : At(s, k) # ">"
                /\ \E a \in (j + 2)..(n - 2) : At(s, a) = "@"
                /\ LET g == CHOOSE g \in 0..(j - 1) :
                                /\ \A k \in (g + 1)..(j - 1) : IsSpace(At(s, k))
                                /\ (g = 0 \/ ~IsSpace(At(s, g)))
                   IN  \A k \in 1..g : At(s, k) # "\n"}

\* A faulty variant of ParsePerson: the test for '@' of line 352 comes
\* before the pattern of line 345.
ParsePersonAtSignFirst(raw, s) ==
    IF Contains(raw, "@")
    THEN <<Some(s), Some(TitleFrom(SplitFirst(s, "@"), 1, FALSE))>>
    ELSE <<NoneVal, Some(s)>>

\* Lines 344-359, with raw the string and s the string stripped.
ParsePerson(raw, s) ==
    LET n == Len(s)
        cands == AngleCandidates(s)
    IN  IF cands # {}
        THEN LET j == CHOOSE j \in cands : \A k \in cands : j <= k
                 g == CHOOSE g \in 0..(j - 1) :
                          /\ \A k \in (g + 1)..(j - 1) : IsSpace(At(s, k))
                          /\ (g = 0 \/ ~IsSpace(At(s, g)))
                 name == StripChars(Strip(SubSeq(s, 1, g)), {"\""})
                 email == Strip(SubSeq(s, j + 1, n - 1))
             IN  <<Some(email), Some(name)>>
        ELSE IF Contains(raw, "@")
        THEN <<Some(s), Some(TitleFrom(SplitFirst(s, "@"), 1, FALSE))>>
        ELSE <<NoneVal, Some(s)>>

\* Returns <<email, name>>, each an Optional[str].
parse_person_string(person_str) ==
    IF ~Truthy(person_str) THEN <<NoneVal, NoneVal>>
    ELSE ParsePerson(person_str[1], Strip(person_str[1]))

(***************************************************************************)
(* Regex fallback over the document text                                   *)
(***************************************************************************)

HeaderSliceLen == 2000

\* Does the text hold the literal key at position p, ignoring case
\* (re.IGNORECASE).
KeyAt(text, p, key) ==
    /\ p + Len(key) - 1 <= Len(text)
    /\ \A ix \in 1..Len(key) : Lower(At(text, p + ix - 1)) = Lower(At(key, ix))

\* Index after the maximal run of whitespace that starts at s.
SkipSpace(text, s) ==
    FirstIn({ix \in s..Len(text) : ~IsSpace(At(text, ix))}, s, Len(text))

\* The tail \s*([^\r\n]+) of a pattern, tried at index s: the index where
\* group 1 starts, or 0 when the tail cannot match.  \s* is greedy; when the
\* whitespace runs to the end of the text it gives characters back until
\* one that is no newline can start the group.
ColonTailStart(text, s) ==
    LET n == Len(text)
        e == SkipSpace(text, s)
    IN  IF e <= n THEN e
        ELSE LET back == {ix \in s..n : ~IsNewline(At(text, ix))}
             IN  IF back = {} THEN 0
                 ELSE CHOOSE ix \in back : \A k \in back : k <= ix

\* re.search(key \s*([^\r\n]+)) over text: group 1 of the leftmost match as
\* an Optional[str]; the group is the maximal run of [^\r\n] from its start.
SearchColon(text, key) ==
    LET n == Len(text)
        hits == {p \in 1..n : KeyAt(text, p, key)
                              /\ ColonTailStart(text, p + Len(key)) # 0}
    IN  IF hits = {} THEN NoneVal
        ELSE LET p == CHOOSE p \in hits : \A q \in hits : p <= q
                 st == ColonTailStart(text, p + Len(key))
                 stops == {ix \in st..n : IsNewline(At(text, ix))}
             IN  Some(SubSeq(text, st, FirstIn(stops, st, n) - 1))

\* The tail \s+([^\r\n]+@[^\r\n\s]+) tried at index s: the pairs <<st, a>>
\* of a group start st (after at least one whitespace character) and the
\* index a of the '@' the match can use.
AtTailChoices(text, s) ==
    LET n == Len(text)
        e == SkipSpace(text, s)
    IN  {c \in ((s + 1)..e) \X (1..n) :
            /\ c[1] < c[2]
            /\ c[2] < n
            /\ At(text, c[2]) = "@"
            /\ ~IsSpace(At(text, c[2] + 1))
            /\ \A k \in c[1]..c[2] : ~IsNewline(At(text, k))}

\* re.search(key \s+([^\r\n]+@[^\r\n\s]+)) over text.  Both \s+ and
\* [^\r\n]+ are greedy: the longest whitespace run that still lets the
\* rest match, then the last usable '@' of the line; after it the group
\* takes the maximal run of [^\r\n\s].
SearchAt(text, key) ==
    LET n == Len(text)
        hits == {p \in 1..n : KeyAt(text, p, key)
                              /\ AtTailChoices(text, p + Len(key)) # {}}
    IN  IF hits = {} THEN NoneVal
        ELSE LET p == CHOOSE p \in hits : \A q \in hits : p <= q
                 cs == AtTailChoices(text, p + Len(key))
                 c == CHOOSE c \in cs : \A d \in cs :
                          \/ d[1] < c[1]
                          \/ (d[1] = c[1] /\ d[2] <= c[2])
                 stops == {ix \in (c[2] + 1)..n : IsSpace(At(text, ix))}
             IN  Some(SubSeq(text, c[1], FirstIn(stops, c[2] + 1, n) - 1))

\* A pattern is <<kind, key>>; the result of re.search for it.
Search(text, pattern) ==
    IF pattern[1] = "colon" THEN SearchColon(text, pattern[2])
    ELSE SearchAt(text, pattern[2])

\* a when it is not None, b otherwise.
Coalesce(a, b) == IF a # NoneVal THEN a ELSE b

\* "for pattern in patterns: match = re.search(...); if match: return ...":
\* group 1 of the first of patterns[ix..] that matches, None when none does.
RECURSIVE FirstMatch(_, _, _)
FirstMatch(text, patterns, ix) ==
    IF ix > Len(patterns) THEN NoneVal
    ELSE Coalesce(Search(text, patterns[ix]), FirstMatch(text, patterns, ix + 1))

FromPatterns ==
    << <<"colon", "From:">>, <<"colon", "FROM:">>, <<"colon", "Sender:">>,
       <<"at", "From">> >>

ToPatterns ==
    << <<"colon", "To:">>, <<"colon", "TO:">>, <<"colon", "Recipient:">>,
       <<"at", "To">>, <<"colon", "Cc:">> >>

SubjectPatterns ==
    << <<"colon", "Subject:">>, <<"colon", "SUBJECT:">>, <<"colon", "Re:">>,
       <<"colon", "Subj:">> >>

DatePatterns ==
    << <<"colon", "Sent:">>, <<"colon", "Date:">>, <<"colon", "SENT:">>,
       <<"colon", "DATE:">>, <<"colon", "Received:">> >>

\* The shared body of extract_from_field, extract_subject_field and
\* extract_date_field: group 1 of the first matching pattern, stripped.
ExtractField(text, patterns) ==
    LET group == FirstMatch(text, patterns, 1)
    IN  IF group = NoneVal THEN NoneVal ELSE Some(Strip(group[1]))

extract_from_field(text) == ExtractField(text, FromPatterns)

\* Lines 494-497: only the first of several recipients is kept.
FirstRecipient(to_field) ==
    IF Contains(to_field, ";") THEN Strip(SplitFirst(to_field, ";")) ELSE to_field

extract_to_field(text) ==
    LET group == FirstMatch(text, ToPatterns, 1)
    IN  IF group = NoneVal THEN NoneVal ELSE Some(FirstRecipient(Strip(group[1])))

extract_subject_field(text) == ExtractField(text, SubjectPatterns)

extract_date_field(text) == ExtractField(text, DatePatterns)

\* A faulty variant of extract_email_metadata_from_text: it searches the
\* whole text instead of the leading slice.
extract_metadata_whole_text(doc_text) ==
    LET keep(v) == IF Truthy(v) THEN v ELSE NoneVal
    IN  [from    |-> keep(extract_from_field(doc_text)),
         to      |-> keep(extract_to_field(doc_text)),
         subject |-> keep(extract_subject_field(doc_text)),
         date    |-> keep(extract_date_field(doc_text))]

\* The metadata dict as a record of Optional[str]: a key is in the dict
\* exactly when the extracted value is truthy.
extract_email_metadata_from_text(doc_text) ==
    LET header_text == Prefix(doc_text, HeaderSliceLen)
        keep(v) == IF Truthy(v) THEN v ELSE NoneVal
    IN  [from    |-> keep(extract_from_field(header_text)),
         to      |-> keep(extract_to_field(header_text)),
         subject |-> keep(extract_subject_field(header_text)),
         date    |-> keep(extract_date_field(header_text))]

(***************************************************************************)
(* parse_date_string: datetime.strptime over the ordered format list       *)
(***************************************************************************)

Digits == "0123456789"

DigitVal(c) == (CHOOSE ix \in 1..10 : At(Digits, ix) = c) - 1

RECURSIVE Num(_)
Num(s) ==
    IF s = "" THEN 0
    ELSE Num(SubSeq(s, 1, Len(s) - 1)) * 10 + DigitVal(At(s, Len(s)))

AllDigits(s, pos, k) ==
    pos + k - 1 <= Len(s) /\ \A ix \in pos..(pos + k - 1) : Contains(Digits, At(s, ix))

\* The format string as strptime reads it: a run of whitespace, a directive
\* %x, or a literal character.
RECURSIVE FormatTokens(_, _)
FormatTokens(fmt, ix) ==
    IF ix > Len(fmt) THEN <<>>
    ELSE LET c == At(fmt, ix)
         IN  IF c = "%"
             THEN IF ix = Len(fmt) THEN << <<"bad", "">> >>
                  ELSE << <<"dir", At(fmt, ix + 1)>> >> \o FormatTokens(fmt, ix + 2)
             ELSE IF IsSpace(c)
             THEN << <<"ws", "">> >> \o FormatTokens(fmt, SkipSpace(fmt, ix))
             ELSE << <<"lit", c>> >> \o FormatTokens(fmt, ix + 1)

\* A format strptime can compile: known directives, none of them twice.
FormatOK(toks) ==
    /\ \A ix \in 1..Len(toks) :
          /\ toks[ix][1] # "bad"
          /\ toks[ix][1] = "dir" =>
                toks[ix][2] \in {"Y", "m", "d", "H", "I", "M", "S", "f", "p",
                                 "A", "a", "B", "b"}
    /\ \A ix, j \in 1..Len(toks) :
          (ix # j /\ toks[ix][1] = "dir" /\ toks[j][1] = "dir")
              => toks[ix][2] # toks[j][2]

\* One or two digits at pos forming a value two-digit alternatives accept.
TwoDigit(s, pos, lo, hi) ==
    IF AllDigits(s, pos, 2) /\ Num(SubSeq(s, pos, pos + 1)) \in lo..hi
    THEN << <<2, Num(SubSeq(s, pos, pos + 1))>> >>
    ELSE <<>>

OneDigit(s, pos, lo) ==
    IF AllDigits(s, pos, 1) /\ DigitVal(At(s, pos)) >= lo
    THEN << <<1, DigitVal(At(s, pos))>> >>
    ELSE <<>>

NameChoices(s, pos, names) ==
    LET hit == {ix \in 1..Len(names) : KeyAt(s, pos, names[ix])}
    IN  IF hit = {} THEN <<>>
        ELSE LET ix == CHOOSE ix \in hit : TRUE IN << <<Len(names[ix]), ix>> >>

\* The alternatives of one token at pos, in the order the regular expression
\* of strptime tries them; each is <<characters consumed, value>>.
TokenChoices(tok, s, pos) ==
    LET d == tok[2]
    IN  IF tok[1] = "lit"
        THEN IF KeyAt(s, pos, d) THEN << <<1, 0>> >> ELSE <<>>
        ELSE IF tok[1] = "ws"
        THEN LET e == SkipSpace(s, pos)
             IN  [k \in 1..(e - pos) |-> <<e - pos - k + 1, 0>>]
        ELSE CASE d = "Y" -> IF AllDigits(s, pos, 4)
                             THEN << <<4, Num(SubSeq(s, pos, pos + 3))>> >>
                             ELSE <<>>
               [] d \in {"m", "I"} ->
                     (IF AllDigits(s, pos, 2) /\ At(s, pos) \in {"0", "1"}
                      THEN TwoDigit(s, pos, 1, 12) ELSE <<>>)
                     \o OneDigit(s, pos, 1)
               [] d = "d" ->
                     TwoDigit(s, pos, 1, 31) \o OneDigit(s, pos, 1)
                     \o (IF pos + 1 <= Len(s) /\ At(s, pos) = " "
                            /\ OneDigit(s, pos + 1, 1) # <<>>
                         THEN << <<2, DigitVal(At(s, pos + 1))>> >> ELSE <<>>)
               [] d = "H" -> TwoDigit(s, pos, 0, 23) \o OneDigit(s, pos, 0)
               [] d = "M" -> TwoDigit(s, pos, 0, 59) \o OneDigit(s, pos, 0)
               [] d = "S" -> TwoDigit(s, pos, 0, 61) \o OneDigit(s, pos, 0)
               [] d = "f" ->
                     LET runlen == CHOOSE r \in 0..6 :
                                   /\ AllDigits(s, pos, r)
                                   /\ (r = 6 \/ ~AllDigits(s, pos, r + 1))
                     IN  [k \in 1..runlen |->
                            LET len == runlen - k + 1
                                pad == SubSeq("000000", 1, 6 - len)
                            IN  <<len, Num(SubSeq(s, pos, pos + len - 1) \o pad)>>]
               [] d = "p" -> NameChoices(s, pos, <<"am", "pm">>)
               [] d = "B" ->
                     NameChoices(s, pos,
                         <<"january", "february", "march", "april", "may",
                           "june", "july", "august", "september", "october",
                           "november", "december">>)
               [] d = "b" ->
                     NameChoices(s, pos,
                         <<"jan", "feb", "mar", "apr", "may", "jun", "jul",
                           "aug", "sep", "oct", "nov", "dec">>)
               [] d = "A" ->
                     NameChoices(s, pos,
                         <<"monday", "tuesday", "wednesday", "thursday",
                           "friday", "saturday", "sunday">>)
               [] d = "a" ->
                     NameChoices(s, pos,
                         <<"mon", "tue", "wed", "thu", "fri", "sat", "sun">>)

Bind(env, tok, val) ==
    IF tok[1] # "dir" THEN env
    ELSE CASE tok[2] = "Y" -> [env EXCEPT !.Y = val]
           [] tok[2] \in {"m", "B", "b"} -> [env EXCEPT !.m = val]
           [] tok[2] = "d" -> [env EXCEPT !.d = val]
           [] tok[2] = "H" -> [env EXCEPT !.H = val]
           [] tok[2] = "I" -> [env EXCEPT !.I = val, !.hasI = TRUE]
           [] tok[2] = "M" -> [env EXCEPT !.M = val]
           [] tok[2] = "S" -> [env EXCEPT !.S = val]
           [] tok[2] = "f" -> [env EXCEPT !.f = val]
           [] tok[2] = "p" -> [env EXCEPT !.p = val]
           [] OTHER -> env

\* The ways to go on from one partial match <<position, fields>> over one
\* more token, in the order the backtracking matcher tries them.
StepsOver(cfg, tok, cs) ==
    [k \in 1..Len(cs) |-> <<cfg[1] + cs[k][1], Bind(cfg[2], tok, cs[k][2])>>]

RECURSIVE StepAll(_, _, _, _)
StepAll(cfgs, j, tok, s) ==
    IF j > Len(cfgs) THEN <<>>
    ELSE StepsOver(cfgs[j], tok, TokenChoices(tok, s, cfgs[j][1]))
             \o StepAll(cfgs, j + 1, tok, s)

\* All matches of tokens i.. of the format, in backtracking order (the
\* order of a depth-first search that tries each token's alternatives in
\* turn); re.match returns the first of them.
RECURSIVE MatchesFrom(_, _, _, _)
MatchesFrom(toks, ix, s, cfgs) ==
    IF ix > Len(toks) \/ cfgs = <<>> THEN cfgs
    ELSE MatchesFrom(toks, ix + 1, s, StepAll(cfgs, 1, toks[ix], s))

\* The first match of the whole format from pos: Some(<<end position,
\* fields>>), or None.
FirstOf(ms) == IF ms = <<>> THEN NoneVal ELSE Some(ms[1])

DaysInMonth(y, m) ==
    IF m = 2 THEN (IF (y % 4 = 0 /\ y % 100 # 0) \/ y % 400 = 0 THEN 29 ELSE 28)
    ELSE IF m \in {4, 6, 9, 11} THEN 30 ELSE 31

\* The first match of the format over date_str from its start; the fields
\* start from the defaults of strptime (1900-01-01 00:00:00).
StrptimeMatch(date_str, toks) ==
    IF ~FormatOK(toks) THEN NoneVal
    ELSE FirstOf(MatchesFrom(toks, 1, date_str,
             << <<1, [Y |-> 1900, m |-> 1, d |-> 1, H |-> 0, I |-> 0, M |-> 0,
                      S |-> 0, f |-> 0, p |-> 0, hasI |-> FALSE]>> >>))

\* The datetime of a match r, None when r is None, when data remains
\* unconverted or when the fields are no date.
StrptimeDate(date_str, r) ==
    IF r = NoneVal THEN NoneVal
    ELSE LET e == r[1][2]
             hour == IF ~e.hasI THEN e.H
                     ELSE IF e.p = 2
                          THEN (IF e.I = 12 THEN 12 ELSE e.I + 12)
                          ELSE (IF e.I = 12 THEN 0 ELSE e.I)
         IN  IF \/ r[1][1] # Len(date_str) + 1
                \/ e.Y < 1
                \/ e.d > DaysInMonth(e.Y, e.m)
                \/ e.S > 59
             THEN NoneVal
             ELSE Some(<<e.Y, e.m, e.d, hour, e.M, e.S, e.f>>)

\* datetime.strptime(date_str, fmt) as an Optional datetime
\* <<year, month, day, hour, minute, second, microsecond>>; None stands for
\* the ValueError the callers catch.
Strptime(date_str, fmt) ==
    StrptimeDate(date_str, StrptimeMatch(date_str, FormatTokens(fmt, 1)))

DateFormats ==
    <<"%Y-%m-%dT%H:%M:%S.%fZ", "%Y-%m-%dT%H:%M:%SZ", "%Y-%m-%dT%H:%M:%S",
      "%A, %B %d, %Y %I:%M %p", "%A, %B %d, %Y %I:%M:%S %p",
      "%A, %b %d, %Y %I:%M %p", "%B %d, %Y %I:%M %p", "%b %d, %Y %I:%M %p",
      "%Y-%m-%d %H:%M:%S", "%Y-%m-%d %H:%M", "%Y-%m-%d",
      "%m/%d/%Y %H:%M:%S", "%m/%d/%Y %H:%M", "%m/%d/%Y",
      "%d/%m/%Y %H:%M:%S", "%d/%m/%Y %H:%M", "%d/%m/%Y",
      "%B %d, %Y", "%b %d, %Y", "%d %B %Y", "%d %b %Y", "%Y/%m/%d",
      "%m-%d-%Y", "%d-%m-%Y">>

\* Lines 421-432: the result of the first of formats[ix..] that parses.
RECURSIVE FirstParsed(_, _, _)
FirstParsed(date_str, formats, ix) ==
    IF ix > Len(formats) THEN NoneVal
    ELSE Coalesce(Strptime(date_str, formats[ix]),
                  FirstParsed(date_str, formats, ix + 1))

\* A faulty variant of parse_date_string: the hint is never tried.
parse_date_list_only(date_str, format_hint) ==
    IF ~Truthy(date_str) THEN NoneVal
    ELSE FirstParsed(date_str[1], DateFormats, 1)

\* date_str is an Optional[str]; the result an Optional datetime.  The
\* formats are tried in order: the hint unless it is 'auto', then the list.
parse_date_string(date_str, format_hint) ==
    IF ~Truthy(date_str) THEN NoneVal
    ELSE FirstParsed(date_str[1],
                     (IF format_hint # "auto" THEN <<format_hint>> ELSE <<>>)
                         \o DateFormats,
                     1)

(***************************************************************************)
(* extract_email_record                                                    *)
(*                                                                         *)
(* A document is a record [id, title, full_text, data, created_at].  data  *)
(* is the tag data as a sequence of <<key, value>> pairs in the order the  *)
(* dict holds them; a value is <<"str", s>> or <<"list", <<s1, ...>> >>.   *)
(***************************************************************************)

BodyLimit == 50000

SearchLimit == 100000

UnknownEmail == "unknown@documentcloud.org"

RECURSIVE LowerStr(_)
LowerStr(s) == IF s = "" THEN "" ELSE Lower(At(s, 1)) \o LowerStr(Tail(s))

\* key.lower().strip('_')
TagKey(key) == StripChars(LowerStr(key), {"_"})

\* tags_dict: normalised key -> value.  A pair contributes when its value
\* is a str or a list that is not empty (then its first element); a later
\* pair with the same normalised key overwrites an earlier one.
TagsDict(data) ==
    LET kept == {ix \in 1..Len(data) :
                    data[ix][2][1] = "str" \/ data[ix][2][2] # <<>>}
        keys == {TagKey(data[ix][1]) : ix \in kept}
        value(v) == IF v[1] = "str" THEN v[2] ELSE v[2][1]
    IN  [k \in keys |->
            value(data[CHOOSE ix \in kept :
                        /\ TagKey(data[ix][1]) = k
                        /\ \A j \in kept : TagKey(data[j][1]) = k => j <= ix][2])]

\* <<email, name>> of the first field whose value parses to an email or a
\* name; <<None, None>> when there is none.
PersonOr(person, other) ==
    IF Truthy(person[1]) \/ Truthy(person[2]) THEN person ELSE other

RECURSIVE extract_person_info(_, _)
extract_person_info(tags_dict, field_names) ==
    IF field_names = <<>> THEN <<NoneVal, NoneVal>>
    ELSE IF Head(field_names) \notin DOMAIN tags_dict
         THEN extract_person_info(tags_dict, Tail(field_names))
    ELSE PersonOr(parse_person_string(Some(tags_dict[Head(field_names)])),
                  extract_person_info(tags_dict, Tail(field_names)))

\* The value of the first field that is a key of tags_dict.
extract_tag_value(tags_dict, field_names) ==
    LET ok == {ix \in 1..Len(field_names) : field_names[ix] \in DOMAIN tags_dict}
    IN  IF ok = {} THEN NoneVal
        ELSE Some(tags_dict[field_names[CHOOSE ix \in ok : \A j \in ok : ix <= j]])

\* The parsed date of the first field whose value parses.
RECURSIVE extract_date(_, _, _)
extract_date(tags_dict, date_format, field_names) ==
    IF field_names = <<>> THEN NoneVal
    ELSE IF Head(field_names) \notin DOMAIN tags_dict
         THEN extract_date(tags_dict, date_format, Tail(field_names))
    ELSE Coalesce(parse_date_string(Some(tags_dict[Head(field_names)]), date_format),
                  extract_date(tags_dict, date_format, Tail(field_names)))

\* doc_text of extract_email_record: the document text, or the placeholder
\* when the text is empty or blank.
DocText(doc) ==
    IF Strip(doc.full_text) = ""
    THEN "[Document " \o doc.id \o " - " \o doc.title \o "]\n\nNo text content available."
    ELSE doc.full_text

\* The locals sender_email, ..., date_sent of extract_email_record.
Fields(sender, recipient, subject, date_sent) ==
    [sender_email    |-> sender[1],
     sender_name     |-> sender[2],
     recipient_email |-> recipient[1],
     recipient_name  |-> recipient[2],
     subject         |-> subject,
     date_sent       |-> date_sent]

\* Step 1, lines 260-270: the fields read from the tags.
TagFields(doc, date_format) ==
    LET tags_dict == TagsDict(doc.data)
    IN  Fields(extract_person_info(tags_dict, <<"from", "sender", "author">>),
               extract_person_info(tags_dict, <<"to", "recipient", "addressee">>),
               extract_tag_value(tags_dict, <<"subject", "title", "topic">>),
               extract_date(tags_dict, date_format,
                            <<"docdate", "date", "sent", "created", "timestamp">>))

\* The condition of line 273: no metadata found in the tags.
FallbackTriggered(f) ==
    ~(\/ Truthy(f.sender_email)
      \/ Truthy(f.recipient_email)
      \/ Truthy(f.subject)
      \/ f.date_sent # NoneVal)

\* Step 2, lines 273-288: the fields after the regex fallback.
UseRegex(f, regex_metadata, date_format) ==
    Fields(IF ~Truthy(f.sender_email) /\ regex_metadata.from # NoneVal
           THEN parse_person_string(regex_metadata.from)
           ELSE <<f.sender_email, f.sender_name>>,
           IF ~Truthy(f.recipient_email) /\ regex_metadata.to # NoneVal
           THEN parse_person_string(regex_metadata.to)
           ELSE <<f.recipient_email, f.recipient_name>>,
           IF ~Truthy(f.subject) /\ regex_metadata.subject # NoneVal
           THEN regex_metadata.subject
           ELSE f.subject,
           IF f.date_sent = NoneVal /\ regex_metadata.date # NoneVal
           THEN parse_date_string(regex_metadata.date, date_format)
           ELSE f.date_sent)

FallbackFields(f, doc_text, date_format) ==
    IF ~FallbackTriggered(f) THEN f
    ELSE UseRegex(f, extract_email_metadata_from_text(doc_text), date_format)

\* A faulty variant of OrElse: only None gets the default, "" is kept.
OrElseNone(o, default) == IF o # NoneVal THEN o[1] ELSE default

OrElse(o, default) == IF Truthy(o) THEN o[1] ELSE default

TruncationNotice(doc) ==
    "\n\n[Document truncated. Full text available at: "
        \o "https://www.documentcloud.org/documents/" \o doc.id \o "]"

\* Lines 290-322: the final fallbacks, the truncation and the EmailRecord.
BuildRecord(doc, f, doc_text) ==
    LET body_text == Prefix(doc_text, BodyLimit)
    IN  [document_id     |-> "DC_" \o doc.id,
         sender_email    |-> OrElse(f.sender_email, UnknownEmail),
         sender_name     |-> OrElse(f.sender_name, "Unknown Sender"),
         recipient_email |-> OrElse(f.recipient_email, UnknownEmail),
         recipient_name  |-> OrElse(f.recipient_name, "Unknown Recipient"),
         subject         |-> IF Truthy(f.subject) THEN f.subject[1]
                             ELSE IF doc.title # "" THEN doc.title
                             ELSE "Document " \o doc.id,
         body            |-> IF Len(doc_text) > BodyLimit
                             THEN body_text \o TruncationNotice(doc)
                             ELSE body_text,
         full_text       |-> Prefix(doc_text, SearchLimit),
         date_sent       |-> IF f.date_sent # NoneVal THEN f.date_sent
                             ELSE doc.created_at,
         document_url    |-> "https://www.documentcloud.org/documents/" \o doc.id]

extract_email_record(doc, date_format) ==
    LET doc_text == DocText(doc)
    IN  BuildRecord(doc,
                    FallbackFields(TagFields(doc, date_format), doc_text, date_format),
                    doc_text)

(***************************************************************************)
(* create_database: the SQLite store                                       *)
(*                                                                         *)
(* A table is the sequence of its rows in rowid order.                     *)
(***************************************************************************)

PreviewLimit == 100

\* The decimal digits of n, left-padded with zeros to the given width.
RECURSIVE ZeroPad(_, _)
ZeroPad(n, width) ==
    IF width <= 1 /\ n < 10 THEN At(Digits, n + 1)
    ELSE ZeroPad(n \div 10, width - 1) \o At(Digits, (n % 10) + 1)

\* datetime.isoformat(sep): the microseconds are written only when not 0.
IsoFormat(d, sep) ==
    ZeroPad(d[1], 4) \o "-" \o ZeroPad(d[2], 2) \o "-" \o ZeroPad(d[3], 2)
        \o sep \o ZeroPad(d[4], 2) \o ":" \o ZeroPad(d[5], 2) \o ":"
        \o ZeroPad(d[6], 2)
        \o (IF d[7] = 0 THEN "" ELSE "." \o ZeroPad(d[7], 6))

\* What the store holds for an Optional datetime.  emails.date_sent gets
\* record.date_sent.isoformat(), so sep is "T"; contacts.first_seen and
\* contacts.last_seen get the datetime itself, which the adapter of sqlite3
\* writes as isoformat(" ").
StoredDate(date_sent, sep) ==
    IF date_sent = NoneVal THEN NoneVal ELSE Some(IsoFormat(date_sent[1], sep))

\* ' '.join(s[lo..hi].split()) before the final strip: every run of
\* whitespace becomes one space.
RECURSIVE Collapse(_, _, _)
Collapse(s, lo, hi) ==
    IF lo > hi THEN ""
    ELSE IF lo = hi THEN (IF IsSpace(At(s, lo)) THEN " " ELSE At(s, lo))
    ELSE LET mid == (lo + hi) \div 2
             l == Collapse(s, lo, mid)
             r == Collapse(s, mid + 1, hi)
         IN  IF At(l, Len(l)) = " " /\ At(r, 1) = " " THEN l \o Tail(r) ELSE l \o r

\* The last index of character c in s, 0 when there is none (rfind + 1).
LastIndex(s, c) ==
    LET hit == {ix \in 1..Len(s) : At(s, ix) = c}
    IN  IF hit = {} THEN 0 ELSE CHOOSE ix \in hit : \A k \in hit : k <= ix

generate_preview(text, max_length) ==
    IF text = "" THEN ""
    ELSE LET clean_text == Strip(Collapse(text, 1, Len(text)))
             preview == SubSeq(clean_text, 1, max_length)
             last_period == LastIndex(preview, ".") - 1
             last_space == LastIndex(preview, " ") - 1
         IN  IF Len(clean_text) <= max_length THEN clean_text
             ELSE IF last_period > max_length - 30
                  THEN SubSeq(preview, 1, last_period + 1)
             ELSE IF last_space > max_length - 20
                  THEN SubSeq(preview, 1, last_space) \o "..."
             ELSE preview \o "..."

\* The store after the schema is created and the collection metadata row
\* is inserted (lines 566-631).
EmptyStore(records, coll_name, coll_id) ==
    [emails          |-> <<>>,
     next_id         |-> 1,
     contacts        |-> <<>>,
     email_search    |-> <<>>,
     collection_info |-> [id           |-> coll_id,
                          name         |-> coll_name,
                          record_count |-> Len(records)]]

\* INSERT OR REPLACE INTO emails: document_id is UNIQUE, so a row with the
\* same document_id is deleted and the new row is inserted under a new
\* AUTOINCREMENT id.
InsertOrReplaceEmail(store, rec) ==
    LET others == SelectSeq(store.emails,
                            LAMBDA r : r.document_id # rec.document_id)
        row == [id              |-> store.next_id,
                document_id     |-> rec.document_id,
                sender_email    |-> rec.sender_email,
                sender_name     |-> rec.sender_name,
                recipient_email |-> rec.recipient_email,
                recipient_name  |-> rec.recipient_name,
                subject         |-> rec.subject,
                body            |-> rec.body,
                preview         |-> generate_preview(rec.body, PreviewLimit),
                date_sent       |-> StoredDate(rec.date_sent, "T"),
                document_url    |-> rec.document_url]
    IN  [store EXCEPT !.emails = Append(others, row),
                      !.next_id = store.next_id + 1]

\* INSERT INTO contacts ... ON CONFLICT(email) DO UPDATE (lines 674-681).
UpsertContact(store, email, name, date_sent) ==
    LET hit == {ix \in 1..Len(store.contacts) : store.contacts[ix].email = email}
    IN  IF hit = {}
        THEN [store EXCEPT !.contacts = Append(@,
                [email        |-> email,
                 name         |-> name,
                 display_name |-> IF name # "" THEN name ELSE email,
                 email_count  |-> 1,
                 first_seen   |-> StoredDate(date_sent, " "),
                 last_seen    |-> StoredDate(date_sent, " ")])]
        ELSE LET ix == CHOOSE ix \in hit : TRUE
             IN  [store EXCEPT !.contacts[ix].email_count = @ + 1,
                               !.contacts[ix].last_seen = StoredDate(date_sent, " ")]

\* The condition of line 673.
ContactCounted(email) == email # "" /\ email # UnknownEmail

UpdateContacts(store, rec) ==
    LET s1 == IF ContactCounted(rec.sender_email)
              THEN UpsertContact(store, rec.sender_email, rec.sender_name,
                                 rec.date_sent)
              ELSE store
    IN  IF ContactCounted(rec.recipient_email)
        THEN UpsertContact(s1, rec.recipient_email, rec.recipient_name,
                           rec.date_sent)
        ELSE s1

\* INSERT INTO email_search (lines 684-694).
InsertSearch(store, rec) ==
    [store EXCEPT !.email_search = Append(@,
        [document_id    |-> rec.document_id,
         sender_name    |-> rec.sender_name,
         sender_email   |-> rec.sender_email,
         subject        |-> rec.subject,
         search_content |-> rec.full_text])]

\* One iteration of the loop of lines 634-694.
InsertRecord(store, rec) ==
    InsertSearch(UpdateContacts(InsertOrReplaceEmail(store, rec), rec), rec)

RECURSIVE InsertAll(_, _, _)
InsertAll(store, records, ix) ==
    IF ix > Len(records) THEN store
    ELSE InsertAll(InsertRecord(store, records[ix]), records, ix + 1)

\* The store create_database commits.
create_database(records, coll_name, coll_id) ==
    InsertAll(EmptyStore(records, coll_name, coll_id),
              records, 1)

(***************************************************************************)
(* The collection index at the deployment sink                             *)
(***************************************************************************)

\* list.sort(key=created, reverse=True) of one entry into a list that is
\* sorted already: the sort is stable, so the entry goes before the first
\* one with a smaller key.
RECURSIVE InsertSorted(_, _)
InsertSorted(collections, entry) ==
    IF collections = <<>> THEN <<entry>>
    ELSE IF Head(collections).created < entry.created
         THEN <<entry>> \o collections
         ELSE <<Head(collections)>> \o InsertSorted(Tail(collections), entry)

RECURSIVE SortNewestFirst(_)
SortNewestFirst(collections) ==
    IF collections = <<>> THEN <<>>
    ELSE LET n == Len(collections)
         IN  InsertSorted(SortNewestFirst(SubSeq(collections, 1, n - 1)),
                          collections[n])

\* A faulty variant of update_collections_index: the entry is appended
\* without the check of line 800 and without the sort of line 804.
update_collections_index_appends(index, id, database_name, email_count, now) ==
    Append(index, [id         |-> id,
                   filename   |-> database_name,
                   emailCount |-> email_count,
                   created    |-> now])

\* _update_collections_index: the index after the update.
update_collections_index(index, id, database_name, email_count, now) ==
    LET new_collection == [id         |-> id,
                           filename   |-> database_name,
                           emailCount |-> email_count,
                           created    |-> now]
    IN  IF \E k \in 1..Len(index) : index[k].id = id THEN index
        ELSE SortNewestFirst(Append(index, new_collection))

(***************************************************************************)
(* The run: OpenInbox.main, one process per run, with the checkpoint file  *)
(* cache/processed_docs.json and the sink shared by all runs.              *)
(***************************************************************************)

MaxRuns == 3

MaxDocs == 2

\* The documents of the collection, by id.
DocTable ==
    [d \in {"1", "2"} |->
        IF d = "1"
        THEN [id         |-> "1",
              title      |-> "Lunch",
              full_text  |-> "From: a@x.com\nTo: b@y.com\nSubject: Hi\n\nBody",
              data       |-> <<>>,
              created_at |-> NoneVal]
        ELSE [id         |-> "2",
              title      |-> "",
              full_text  |-> "",
              data       |-> << <<"from", <<"str", "Carol <c@z.com>">> >>,
                                <<"date", <<"list", <<"2009-05-02">> >> >> >>,
              created_at |-> Some(<<2020, 1, 2, 3, 4, 5, 0>>)]]

\* The lists get_documents can return: ids in any order, repeats included.
DocLists == UNION {[1..n -> DOMAIN DocTable] : n \in 0..MaxDocs}

\* The values of the collection_name parameter: missing, and a name that
\* line 91 strips and line 147 makes safe.
CollectionNames == {"", " My inbox"}

\* Line 127 on each document of the collection; date_format is the
\* default of line 92.
RecordOfDoc == [d \in DOMAIN DocTable |-> extract_email_record(DocTable[d], "auto")]

\* The first eight characters of uuid4 are random: two runs can draw the
\* same value.
CollectionIds == {"c1", "c2"}

VARIABLES
    file,                \* cache/processed_docs.json: None, or Some(set of ids)
    sink,                \* the repository: committed files and collections/index.json
    run,                 \* number of runs started
    pc,                  \* where the current run is in main()
    processed_doc_ids,   \* self.processed_doc_ids
    timed_out,           \* self.timed_out
    collection_name,     \* self.data["collection_name"]
    documents,           \* what get_documents() returns in this run
    remaining_documents,
    i,                   \* index into remaining_documents (1-based)
    record,              \* the value extract_email_record returned
    email_records,
    collection_id,
    db,                  \* the store create_database wrote, Some or None
    deployed_url,        \* "unbound", "none" or "url"
    uploaded,
    message,             \* the last status set_message reported
    mail_sent,
    raised,              \* an exception reached the handler of line 199
    file_at_start,       \* history: the checkpoint file when the run started
    sink_at_start,       \* history: the sink when the run started
    done_before,         \* history: ids the checkpoint file held at the start of any run so far
    extracted,           \* history: ids passed to extract_email_record in this run
    added,               \* history: ids this run added to processed_doc_ids
    committed,           \* history: this run has committed its store to the sink
    restored,            \* history: number of calls of restore() in this run
    cleanup_at           \* history: "early" when cleanup() ran before line 165 was passed,
                         \* "late" when it ran after it, "" when it did not run

runVars ==
    <<file, sink, run, pc, processed_doc_ids, timed_out, collection_name,
      documents, remaining_documents, i, record, email_records, collection_id,
      db, deployed_url, uploaded, message, mail_sent, raised, file_at_start,
      sink_at_start, restored, done_before, committed, cleanup_at, extracted, added>>

FileIds(f) == IF f = NoneVal THEN {} ELSE f[1]

DatabaseName(id, name) == id \o "_" \o name \o ".db"

SafeNameLimit == 30

RECURSIVE SafeChars(_, _)
SafeChars(s, ix) ==
    IF ix > Len(s) THEN ""
    ELSE LET c == At(s, ix)
         IN  (IF \/ Contains(UpperLetters, c) \/ Contains(LowerLetters, c)
                 \/ Contains(Digits, c) \/ c \in {"_", "-"}
              THEN c ELSE "_") \o SafeChars(s, ix + 1)

\* No run has started.  The collection (its name parameter and the
\* documents the source returns) is the same for every run.
RunStart(name, docs) ==
    /\ file = NoneVal
    /\ sink = [files |-> {}, index |-> <<>>]
    /\ run = 0
    /\ pc = "idle"
    /\ processed_doc_ids = {}
    /\ timed_out = FALSE
    /\ collection_name = name
    /\ documents = docs
    /\ remaining_documents = <<>>
    /\ i = 0
    /\ record = NoneVal
    /\ email_records = <<>>
    /\ collection_id = ""
    /\ db = NoneVal
    /\ deployed_url = "unbound"
    /\ uploaded = FALSE
    /\ message = ""
    /\ mail_sent = FALSE
    /\ raised = FALSE
    /\ file_at_start = NoneVal
    /\ sink_at_start = sink
    /\ done_before = {}
    /\ extracted = {}
    /\ added = {}
    /\ committed = FALSE
    /\ restored = 0
    /\ cleanup_at = ""

\* A new process is started on the collection: __init__, lines 54-58, and
\* the locals of main() not yet bound.
Start ==
    /\ pc \in {"idle", "done"}
    /\ run < MaxRuns
    /\ run' = run + 1
    /\ processed_doc_ids' = {}
    /\ timed_out' = FALSE
    /\ remaining_documents' = <<>>
    /\ i' = 0
    /\ record' = NoneVal
    /\ email_records' = <<>>
    /\ collection_id' = ""
    /\ db' = NoneVal
    /\ deployed_url' = "unbound"
    /\ uploaded' = FALSE
    /\ message' = ""
    /\ mail_sent' = FALSE
    /\ raised' = FALSE
    /\ extracted' = {}
    /\ added' = {}
    /\ committed' = FALSE
    /\ restored' = 0
    /\ cleanup_at' = ""
    /\ pc' = "restore"
    /\ file_at_start' = file
    /\ sink_at_start' = sink
    /\ done_before' = done_before \cup FileIds(file)
    /\ UNCHANGED <<file, sink, collection_name, documents>>

\* A faulty variant of Restore: the checkpoint file is not read.
RestoreNothing ==
    /\ pc = "restore"
    /\ pc' = "params"
    /\ UNCHANGED <<file, sink, run, processed_doc_ids, timed_out, collection_name,
                   documents, remaining_documents, i, record, email_records,
                   collection_id, db, deployed_url, uploaded, message, mail_sent,
                   raised, file_at_start, sink_at_start, restored, done_before, committed, cleanup_at, extracted,
                   added>>

\* A faulty variant of restore: the identifiers of the file are toggled in
\* the set instead of replacing it.
restore_toggles(f, ids) ==
    IF f # NoneVal THEN (ids \ f[1]) \cup (f[1] \ ids) ELSE ids

\* restore(), lines 60-70: self.processed_doc_ids after the call, on the
\* checkpoint file f; the file is only read.
restore(f, ids) == IF f # NoneVal THEN f[1] ELSE ids

\* The call of restore() at line 88.
Restore ==
    /\ pc = "restore"
    /\ processed_doc_ids' = restore(file, processed_doc_ids)
    /\ restored' = restored + 1
    /\ pc' = "params"
    /\ UNCHANGED <<file, sink, run, timed_out, collection_name, documents,
                   remaining_documents, i, record, email_records, collection_id,
                   db, deployed_url, uploaded, message, mail_sent, raised,
                   file_at_start, sink_at_start, done_before, committed, cleanup_at,
                   extracted, added>>

\* cleanup(), lines 72-82: the interruption handler.  The host calls it
\* once, when the soft time limit of 240 seconds has passed; main() goes
\* on afterwards.
Cleanup ==
    /\ pc \notin {"idle", "restore", "done"}
    /\ ~timed_out
    /\ file' = Some(processed_doc_ids)
    /\ timed_out' = TRUE
    /\ cleanup_at' = IF pc \in {"deploy", "upload", "final"} THEN "late" ELSE "early"
    /\ UNCHANGED <<sink, run, pc, processed_doc_ids, collection_name, documents,
                   remaining_documents, i, record, email_records, collection_id,
                   db, deployed_url, uploaded, message, mail_sent, raised,
                   file_at_start, sink_at_start, restored, done_before, committed, extracted, added>>

\* Lines 91-96: the collection name is required.
CheckParams ==
    /\ pc = "params"
    /\ IF Strip(collection_name) = ""
       THEN message' = "Collection name is required" /\ pc' = "done"
       ELSE message' = "Processing documents..." /\ pc' = "get_documents"
    /\ UNCHANGED <<file, sink, run, processed_doc_ids, timed_out, collection_name,
                   documents, remaining_documents, i, record, email_records,
                   collection_id, db, deployed_url, uploaded, mail_sent, raised,
                   file_at_start, sink_at_start, restored, done_before, committed, cleanup_at, extracted, added>>

\* A faulty variant of FilterDocuments: no document is filtered out.
FilterNothing ==
    /\ pc = "get_documents"
    /\ remaining_documents' = documents
    /\ IF documents = <<>>
       THEN message' = "No documents found to process" /\ pc' = "done" /\ i' = i
       ELSE message' = "Processing documents" /\ pc' = "extract" /\ i' = 1
    /\ UNCHANGED <<file, sink, run, processed_doc_ids, timed_out, collection_name,
                   documents, record, email_records, collection_id, db,
                   deployed_url, uploaded, mail_sent, raised, file_at_start,
                   sink_at_start, restored, done_before, committed, cleanup_at, extracted, added>>

\* Lines 102-121: get the documents, filter out the processed ones.
FilterDocuments ==
    /\ pc = "get_documents"
    /\ LET remaining == SelectSeq(documents,
                                  LAMBDA d : DocTable[d].id \notin processed_doc_ids)
       IN  /\ remaining_documents' = IF documents = <<>> THEN <<>> ELSE remaining
           /\ IF documents = <<>>
              THEN message' = "No documents found to process" /\ pc' = "done"
                   /\ i' = i
              ELSE IF remaining = <<>>
              THEN message' = "All documents already processed!" /\ pc' = "done"
                   /\ i' = i
              ELSE message' = "Processing documents" /\ pc' = "extract" /\ i' = 1
    /\ UNCHANGED <<file, sink, run, processed_doc_ids, timed_out, collection_name,
                   documents, record, email_records, collection_id, db,
                   deployed_url, uploaded, mail_sent, raised, file_at_start,
                   sink_at_start, restored, done_before, committed, cleanup_at, extracted, added>>

\* The end of one iteration of the loop of line 125.
NextDocument ==
    IF i < Len(remaining_documents)
    THEN i' = i + 1 /\ pc' = "extract"
    ELSE i' = i /\ pc' = "check_records"

\* A faulty variant of ExtractRecord: the identifier joins the checkpoint
\* set when the record is returned, before line 129 appends it.
ExtractRecordMarksDone ==
    /\ pc = "extract"
    /\ record' = Some(RecordOfDoc[remaining_documents[i]])
    /\ extracted' = extracted \cup {DocTable[remaining_documents[i]].id}
    /\ processed_doc_ids' = processed_doc_ids \cup {DocTable[remaining_documents[i]].id}
    /\ added' = added \cup {DocTable[remaining_documents[i]].id}
    /\ pc' = "append"
    /\ UNCHANGED <<file, sink, run, timed_out, collection_name, documents,
                   remaining_documents, i, email_records, collection_id, db,
                   deployed_url, uploaded, message, mail_sent, raised,
                   file_at_start, sink_at_start, restored, done_before, committed, cleanup_at>>

\* Line 127, extract_email_record returns a record.
ExtractRecord ==
    /\ pc = "extract"
    /\ record' = Some(RecordOfDoc[remaining_documents[i]])
    /\ extracted' = extracted \cup {DocTable[remaining_documents[i]].id}
    /\ pc' = "append"
    /\ UNCHANGED <<file, sink, run, processed_doc_ids, timed_out, collection_name,
                   documents, remaining_documents, i, email_records, collection_id,
                   db, deployed_url, uploaded, message, mail_sent, raised,
                   file_at_start, sink_at_start, restored, done_before, committed, cleanup_at, added>>

\* A faulty variant of ExtractFails: the exception leaves the loop and
\* reaches the handler of main().
ExtractFailsAborts ==
    /\ pc = "extract"
    /\ record' = NoneVal
    /\ extracted' = extracted \cup {DocTable[remaining_documents[i]].id}
    /\ raised' = TRUE
    /\ message' = "Error"
    /\ pc' = "done"
    /\ UNCHANGED <<file, sink, run, processed_doc_ids, timed_out, collection_name,
                   documents, remaining_documents, i, email_records, collection_id,
                   db, deployed_url, uploaded, mail_sent, file_at_start,
                   sink_at_start, restored, done_before, committed, cleanup_at, added>>

\* Line 127, the extraction fails: extract_email_record returns None
\* (lines 324-326), or raises and the loop goes on (lines 137-139).
ExtractFails ==
    /\ pc = "extract"
    /\ record' = NoneVal
    /\ extracted' = extracted \cup {DocTable[remaining_documents[i]].id}
    /\ NextDocument
    /\ UNCHANGED <<file, sink, run, processed_doc_ids, timed_out, collection_name,
                   documents, remaining_documents, email_records, collection_id,
                   db, deployed_url, uploaded, message, mail_sent, raised,
                   file_at_start, sink_at_start, restored, done_before, committed, cleanup_at, added>>

\* Line 129.
AppendRecord ==
    /\ pc = "append"
    /\ email_records' = Append(email_records, record[1])
    /\ pc' = "add"
    /\ UNCHANGED <<file, sink, run, processed_doc_ids, timed_out, collection_name,
                   documents, remaining_documents, i, record, collection_id, db,
                   deployed_url, uploaded, message, mail_sent, raised,
                   file_at_start, sink_at_start, restored, done_before, committed, cleanup_at, extracted, added>>

\* Lines 130-135: the id joins the checkpoint set, the progress is reported.
AddProcessed ==
    /\ pc = "add"
    /\ processed_doc_ids' = processed_doc_ids \cup {DocTable[remaining_documents[i]].id}
    /\ added' = added \cup {DocTable[remaining_documents[i]].id}
    /\ NextDocument
    /\ UNCHANGED <<file, sink, run, timed_out, collection_name, documents,
                   remaining_documents, record, email_records, collection_id, db,
                   deployed_url, uploaded, message, mail_sent, raised,
                   file_at_start, sink_at_start, restored, done_before, committed, cleanup_at, extracted>>

\* Lines 141-156: no record, or the names of the collection are drawn.
CheckRecords ==
    /\ pc = "check_records"
    /\ IF email_records = <<>>
       THEN /\ message' = "No valid email records could be extracted"
            /\ pc' = "done"
            /\ collection_id' = collection_id
       ELSE /\ message' = "Creating database"
            /\ pc' = "create_database"
            /\ \E id \in CollectionIds : collection_id' = id
    /\ UNCHANGED <<file, sink, run, processed_doc_ids, timed_out, collection_name,
                   documents, remaining_documents, i, record, email_records, db,
                   deployed_url, uploaded, mail_sent, raised, file_at_start,
                   sink_at_start, restored, done_before, committed, cleanup_at, extracted, added>>

\* Line 159, create_database returns.
CreateDatabase ==
    /\ pc = "create_database"
    /\ db' = Some(create_database(email_records, Strip(collection_name), collection_id))
    /\ message' = "Deploying to GitHub Pages..."
    /\ pc' = "deploy_check"
    /\ UNCHANGED <<file, sink, run, processed_doc_ids, timed_out, collection_name,
                   documents, remaining_documents, i, record, email_records,
                   collection_id, deployed_url, uploaded, mail_sent, raised,
                   file_at_start, sink_at_start, restored, done_before, committed, cleanup_at, extracted, added>>

\* The handler of lines 199-201.
HandleException ==
    /\ raised' = TRUE
    /\ message' = "Error"
    /\ pc' = "done"

\* A faulty variant of CreateDatabaseFails: the failure is recorded and the
\* run goes on to the deployment.
CreateDatabaseFailsGoesOn ==
    /\ pc = "create_database"
    /\ raised' = TRUE
    /\ message' = "Error"
    /\ pc' = "deploy_check"
    /\ UNCHANGED <<file, sink, run, processed_doc_ids, timed_out, collection_name,
                   documents, remaining_documents, i, record, email_records,
                   collection_id, db, deployed_url, uploaded, mail_sent,
                   file_at_start, sink_at_start, restored, done_before, committed, cleanup_at,
                   extracted, added>>

\* Line 159, create_database raises (sqlite3 or the file system fails).
CreateDatabaseFails ==
    /\ pc = "create_database"
    /\ HandleException
    /\ UNCHANGED <<file, sink, run, processed_doc_ids, timed_out, collection_name,
                   documents, remaining_documents, i, record, email_records,
                   collection_id, db, deployed_url, uploaded, mail_sent,
                   file_at_start, sink_at_start, restored, done_before, committed, cleanup_at, extracted, added>>

\* A faulty variant of DeployCheck: the deployment is not skipped.
DeployCheckAlways ==
    /\ pc = "deploy_check"
    /\ pc' = "deploy"
    /\ UNCHANGED <<file, sink, run, processed_doc_ids, timed_out, collection_name,
                   documents, remaining_documents, i, record, email_records,
                   collection_id, db, deployed_url, uploaded, message, mail_sent,
                   raised, file_at_start, sink_at_start, restored, done_before, committed,
                   cleanup_at, extracted, added>>

\* Line 165: deploy only when the run has not timed out.
DeployCheck ==
    /\ pc = "deploy_check"
    /\ pc' = IF ~timed_out THEN "deploy" ELSE "final"
    /\ UNCHANGED <<file, sink, run, processed_doc_ids, timed_out, collection_name,
                   documents, remaining_documents, i, record, email_records,
                   collection_id, db, deployed_url, uploaded, message, mail_sent,
                   raised, file_at_start, sink_at_start, restored, done_before, committed, cleanup_at, extracted,
                   added>>

\* Line 147: re.sub(r'[^a-zA-Z0-9_-]', '_', collection_name)[:30], on the
\* stripped name of line 91.
safe_collection_name ==
    Prefix(SafeChars(Strip(collection_name), 1), SafeNameLimit)

\* deploy_to_github, lines 723-725 and 760-762: no repository is
\* configured, or the deployment raises; the result is None.
DeployNoRepository ==
    /\ pc = "deploy"
    /\ deployed_url' = "none"
    /\ pc' = "upload"
    /\ UNCHANGED <<file, sink, run, processed_doc_ids, timed_out, collection_name,
                   documents, remaining_documents, i, record, email_records,
                   collection_id, db, uploaded, message, mail_sent, raised,
                   file_at_start, sink_at_start, restored, done_before, committed, cleanup_at, extracted, added>>

\* deploy_to_github returns the URL with nothing committed: no token (lines
\* 727-731), or _commit_via_github_api returns False (lines 735-758:
\* invalid store, file too large, API error).
DeployCommitFails ==
    /\ pc = "deploy"
    /\ deployed_url' = "url"
    /\ pc' = "upload"
    /\ UNCHANGED <<file, sink, run, processed_doc_ids, timed_out, collection_name,
                   documents, remaining_documents, i, record, email_records,
                   collection_id, db, uploaded, message, mail_sent, raised,
                   file_at_start, sink_at_start, restored, done_before, committed, cleanup_at, extracted, added>>

\* deploy_to_github, lines 735-758 with the store committed; the index
\* update that follows can fail without failing the deployment.
DeployCommits ==
    /\ pc = "deploy"
    /\ \E index_updated \in BOOLEAN :
         sink' = [files |-> sink.files
                              \cup {DatabaseName(collection_id, safe_collection_name)},
                  index |-> IF index_updated
                            THEN update_collections_index(
                                    sink.index,
                                    collection_id \o "_" \o safe_collection_name,
                                    DatabaseName(collection_id, safe_collection_name),
                                    Len(email_records), run)
                            ELSE sink.index]
    /\ deployed_url' = "url"
    /\ committed' = TRUE
    /\ pc' = "upload"
    /\ UNCHANGED <<file, run, processed_doc_ids, timed_out, collection_name,
                   documents, remaining_documents, i, record, email_records,
                   collection_id, db, uploaded, message, mail_sent, raised,
                   file_at_start, sink_at_start, restored, done_before, cleanup_at, extracted, added>>

\* Lines 170-176: the store is uploaded for download; a failure is logged.
Upload ==
    /\ pc = "upload"
    /\ \E ok \in BOOLEAN : uploaded' = ok
    /\ pc' = "final"
    /\ UNCHANGED <<file, sink, run, processed_doc_ids, timed_out, collection_name,
                   documents, remaining_documents, i, record, email_records,
                   collection_id, db, deployed_url, message, mail_sent, raised,
                   file_at_start, sink_at_start, restored, done_before, committed, cleanup_at, extracted, added>>

\* A faulty variant of Final: the checkpoint is written when main() ends.
FinalFlushes ==
    /\ pc = "final"
    /\ file' = Some(processed_doc_ids)
    /\ IF deployed_url = "unbound"
       THEN HandleException /\ mail_sent' = mail_sent
       ELSE /\ message' = IF deployed_url = "url" THEN "Open Inbox ready!"
                          ELSE "Deployment failed. Database available for download."
            /\ mail_sent' = (mail_sent \/ deployed_url = "url")
            /\ pc' = "done"
            /\ raised' = raised
    /\ UNCHANGED <<sink, run, processed_doc_ids, timed_out, collection_name,
                   documents, remaining_documents, i, record, email_records,
                   collection_id, db, deployed_url, uploaded, file_at_start,
                   sink_at_start, restored, done_before, committed, cleanup_at, extracted, added>>

\* Lines 179-197.  deployed_url is assigned only inside the branch of line
\* 165: reading it unbound raises UnboundLocalError, which line 199 catches.
Final ==
    /\ pc = "final"
    /\ IF deployed_url = "unbound"
       THEN HandleException /\ mail_sent' = mail_sent
       ELSE IF deployed_url = "url"
       THEN /\ message' = "Open Inbox ready!"
            /\ mail_sent' = TRUE
            /\ pc' = "done"
            /\ raised' = raised
       ELSE /\ message' = "Deployment failed. Database available for download."
            /\ mail_sent' = mail_sent
            /\ pc' = "done"
            /\ raised' = raised
    /\ UNCHANGED <<file, sink, run, processed_doc_ids, timed_out, collection_name,
                   documents, remaining_documents, i, record, email_records,
                   collection_id, db, deployed_url, uploaded, file_at_start,
                   sink_at_start, restored, done_before, committed, cleanup_at, extracted, added>>


(***************************************************************************)
(* extract_email_record on one document, step by step                      *)
(***************************************************************************)

\* n copies of the string s.
RECURSIVE Rep(_, _)
Rep(s, n) ==
    IF n = 0 THEN ""
    ELSE LET h == Rep(s, n \div 2)
         IN  h \o h \o (IF n % 2 = 1 THEN s ELSE "")

ExampleText == "From: a@x.com\nTo: b@y.com\nSubject: Hi\n\nBody"

OtherText ==
    "From: Dave <d@w.com>\nTo: f@u.com; g@t.com\nSubject: Other\nDate: 2001-02-03\n\nBody"

SenderFirstText == "Sender: s@q.com\nFrom: a@x.com\nRe: Plan\nSubject: Hi\n"

\* The headers after a filler line of n characters.
PaddedText(n) == Rep("x", n) \o "\nFrom: a@x.com\nSubject: Late\n"

\* The texts tried; of the two padded ones, the first leaves the From
\* header inside the leading slice up to the middle of its value, the
\* second pushes every header beyond the slice.
ExTexts ==
    {"", ExampleText, OtherText, SenderFirstText,
     PaddedText(HeaderSliceLen - 12), PaddedText(HeaderSliceLen)}

\* Texts at and just beyond the limits of lines 301 and 302.
ExLongTexts ==
    {Rep("x", n) : n \in {BodyLimit, BodyLimit + 1, SearchLimit, SearchLimit + 1}}

\* doc.data of the documents tried: no tag, a tag for one field, a sender
\* tag in each of the three forms parse_person_string knows, tags with
\* empty and blank values and with an empty list, a sender without a name.
ExTagMaps ==
    { <<>>,
      << <<"from", <<"str", "Carol <c@z.com>">> >> >>,
      << <<"from", <<"str", "c@z.com">> >> >>,
      << <<"from", <<"str", "Carol">> >> >>,
      << <<"To", <<"list", <<"Eve <e@v.com>">> >> >> >>,
      << <<"subject", <<"str", "Tagged">> >> >>,
      << <<"_date", <<"str", "2009-05-02">> >> >>,
      << <<"from", <<"str", "">> >>, <<"to", <<"str", "  ">> >>,
         <<"subject", <<"str", "">> >>, <<"date", <<"str", "">> >> >>,
      << <<"from", <<"list", <<>> >> >>, <<"subject", <<"list", <<"">> >> >> >>,
      << <<"from", <<"str", "<c@z.com>">> >> >> }

VARIABLES
    ex_pc,               \* where extract_email_record is: "tags", "check", "build", "done"
    ex_doc,              \* its argument doc
    ex_tag_fields,       \* the fields as Step 1 left them (line 270)
    ex_fields,           \* sender_email, ..., date_sent: the locals of lines 261-288
    ex_regex_used,       \* the branch of line 273 was taken
    ex_record            \* the value returned, Some or None

exVars == <<ex_pc, ex_doc, ex_tag_fields, ex_fields, ex_regex_used, ex_record>>

\* extract_email_record is called on the document with the text, the tag
\* data, the title and the creation timestamp.
ExStart(text, data, title, created_at) ==
    /\ ex_pc = "tags"
    /\ ex_doc = [id |-> "7", title |-> title, full_text |-> text, data |-> data,
                 created_at |-> created_at]
    /\ ex_tag_fields = Fields(<<NoneVal, NoneVal>>, <<NoneVal, NoneVal>>,
                              NoneVal, NoneVal)
    /\ ex_fields = ex_tag_fields
    /\ ex_regex_used = FALSE
    /\ ex_record = NoneVal

\* Lines 247-270.
ExTags ==
    /\ ex_pc = "tags"
    /\ ex_tag_fields' = TagFields(ex_doc, "auto")
    /\ ex_fields' = ex_tag_fields'
    /\ ex_pc' = "check"
    /\ UNCHANGED <<ex_doc, ex_regex_used, ex_record>>

\* Lines 273-288, the condition of line 273 holds.
ExFallback ==
    /\ ex_pc = "check"
    /\ FallbackTriggered(ex_fields)
    /\ ex_fields' = FallbackFields(ex_fields, DocText(ex_doc), "auto")
    /\ ex_regex_used' = TRUE
    /\ ex_pc' = "build"
    /\ UNCHANGED <<ex_doc, ex_tag_fields, ex_record>>

\* Line 273, the condition does not hold.
ExNoFallback ==
    /\ ex_pc = "check"
    /\ ~FallbackTriggered(ex_fields)
    /\ ex_pc' = "build"
    /\ UNCHANGED <<ex_doc, ex_tag_fields, ex_fields, ex_regex_used, ex_record>>

\* Lines 290-322.
ExBuild ==
    /\ ex_pc = "build"
    /\ ex_record' = Some(BuildRecord(ex_doc, ex_fields, DocText(ex_doc)))
    /\ ex_pc' = "done"
    /\ UNCHANGED <<ex_doc, ex_tag_fields, ex_fields, ex_regex_used>>

(***************************************************************************)
(* create_database on one list of records, one loop iteration per step     *)
(***************************************************************************)

MaxRecords == 3

EarlierDate == <<2009, 5, 1, 9, 30, 0, 0>>

LaterDate == <<2009, 5, 2, 8, 0, 0, 0>>

EmailRecord(document_id, sender, recipient, subject, date_sent) ==
    [document_id     |-> document_id,
     sender_email    |-> sender[1],
     sender_name     |-> sender[2],
     recipient_email |-> recipient[1],
     recipient_name  |-> recipient[2],
     subject         |-> subject,
     body            |-> "Body of " \o subject,
     full_text       |-> "Text of " \o subject,
     date_sent       |-> date_sent,
     document_url    |-> "https://www.documentcloud.org/documents/"
                             \o SubSeq(document_id, 4, Len(document_id))]

\* The records tried: two of the same document, a third of the same
\* sender, one whose sender is unknown.
WriterRecords ==
    LET Ann == <<"a@x.com", "Ann">>
        Bob == <<"b@y.com", "Bob">>
    IN  { EmailRecord("DC_1", Ann, Bob, "Hi", Some(LaterDate)),
          EmailRecord("DC_1", Ann, Bob, "Hi again", Some(EarlierDate)),
          EmailRecord("DC_2", Ann, <<UnknownEmail, "Unknown Recipient">>, "Plan",
                      Some(EarlierDate)),
          EmailRecord("DC_3", <<UnknownEmail, "Unknown Sender">>, Ann, "Note",
                      NoneVal) }

VARIABLES
    w_pc,                \* where create_database is: "insert", "done"
    w_records,           \* its argument email_records
    w_count,             \* iterations of the loop of line 633 done
    w_store              \* the tables of the store

wVars == <<w_pc, w_records, w_count, w_store>>

\* Lines 557-631: the schema and the collection metadata.
WriterStart(records) ==
    /\ w_pc = "insert"
    /\ w_records = records
    /\ w_count = 0
    /\ w_store = EmptyStore(records, "inbox", "c1")

\* Lines 633-694: one record is written to the three tables.
WriterInsert ==
    /\ w_pc = "insert"
    /\ w_count < Len(w_records)
    /\ w_store' = InsertRecord(w_store, w_records[w_count + 1])
    /\ w_count' = w_count + 1
    /\ UNCHANGED <<w_pc, w_records>>

\* Lines 696-697: commit and close.
WriterCommit ==
    /\ w_pc = "insert"
    /\ w_count = Len(w_records)
    /\ w_pc' = "done"
    /\ UNCHANGED <<w_records, w_count, w_store>>

(***************************************************************************)
(* The Chunk Planner, after section 4.5 of spec.md; src/ holds no planner   *)
(***************************************************************************)

MaxChunkSize == 4

MaxRecordCount == 8

\* A faulty variant of chunk_id: the ordinal is taken as 0-based.
chunk_id_zero_based(ordinal, chunk_size) == ordinal \div chunk_size

chunk_id(ordinal, chunk_size) == (ordinal - 1) \div chunk_size

VARIABLES
    ch_pc,               \* "plan", "done"
    ch_size,             \* the chunk size C
    ch_total,            \* the number N of records
    ch_ordinal,          \* ordinals assigned so far
    ch_assigned,         \* the chunk id of each ordinal assigned
    ch_chunks            \* the chunk directory: chunk_id, start, end

chVars == <<ch_pc, ch_size, ch_total, ch_ordinal, ch_assigned, ch_chunks>>

PlannerStart(chunk_size, total) ==
    /\ ch_pc = "plan"
    /\ ch_size = chunk_size
    /\ ch_total = total
    /\ ch_ordinal = 0
    /\ ch_assigned = <<>>
    /\ ch_chunks = <<>>

\* The next record gets its ordinal and its chunk; the chunk's range in the
\* directory is opened or extended.
PlanRecord ==
    /\ ch_pc = "plan"
    /\ ch_ordinal < ch_total
    /\ LET ordinal == ch_ordinal + 1
           id == chunk_id(ordinal, ch_size)
           n == Len(ch_chunks)
       IN  /\ ch_ordinal' = ordinal
           /\ ch_assigned' = Append(ch_assigned, id)
           /\ ch_chunks' =
                IF n > 0 /\ ch_chunks[n].chunk_id = id
                THEN [ch_chunks EXCEPT ![n].end = ordinal]
                ELSE Append(ch_chunks,
                            [chunk_id |-> id, start |-> ordinal, end |-> ordinal])
    /\ UNCHANGED <<ch_pc, ch_size, ch_total>>

PlanDone ==
    /\ ch_pc = "plan"
    /\ ch_ordinal = ch_total
    /\ ch_pc' = "done"
    /\ UNCHANGED <<ch_size, ch_total, ch_ordinal, ch_assigned, ch_chunks>>

(***************************************************************************)
(* parse_person_string and parse_date_string, each called once on inputs   *)
(* of its own                                                              *)
(***************************************************************************)

VARIABLES
    pa_pc,               \* "person", "date", "done"
    pa_person_str,       \* the argument of parse_person_string
    pa_date_str,         \* the arguments of parse_date_string
    pa_hint,
    pa_person,           \* the pair parse_person_string returned
    pa_date              \* the value parse_date_string returned

paVars == <<pa_pc, pa_person_str, pa_date_str, pa_hint, pa_person, pa_date>>

ParseStart(person_str, date_str, format_hint) ==
    /\ pa_pc = "person"
    /\ pa_person_str = person_str
    /\ pa_date_str = date_str
    /\ pa_hint = format_hint
    /\ pa_person = <<NoneVal, NoneVal>>
    /\ pa_date = NoneVal

CallParsePerson ==
    /\ pa_pc = "person"
    /\ pa_person' = parse_person_string(pa_person_str)
    /\ pa_pc' = "date"
    /\ UNCHANGED <<pa_person_str, pa_date_str, pa_hint, pa_date>>

CallParseDate ==
    /\ pa_pc = "date"
    /\ pa_date' = parse_date_string(pa_date_str, pa_hint)
    /\ pa_pc' = "done"
    /\ UNCHANGED <<pa_person_str, pa_date_str, pa_hint, pa_person>>

(***************************************************************************)
(* The specifications                                                      *)
(***************************************************************************)

vars == <<runVars, exVars, wVars, chVars, paVars>>

RunIdle == RunStart("", <<>>)

ExIdle == ExStart("", <<>>, "Memo", NoneVal)

WriterIdle == WriterStart(<<>>)

PlannerIdle == PlannerStart(1, 0)

ParseIdle == ParseStart(NoneVal, NoneVal, "auto")

\* Runs of the add-on on one collection.
Init ==
    /\ \E name \in CollectionNames : \E docs \in DocLists : RunStart(name, docs)
    /\ ExIdle
    /\ WriterIdle
    /\ PlannerIdle
    /\ ParseIdle

Next ==
    \/ Start /\ UNCHANGED <<exVars, wVars, chVars, paVars>>
    \/ Restore /\ UNCHANGED <<exVars, wVars, chVars, paVars>>
    \/ Cleanup /\ UNCHANGED <<exVars, wVars, chVars, paVars>>
    \/ CheckParams /\ UNCHANGED <<exVars, wVars, chVars, paVars>>
    \/ FilterDocuments /\ UNCHANGED <<exVars, wVars, chVars, paVars>>
    \/ ExtractRecord /\ UNCHANGED <<exVars, wVars, chVars, paVars>>
    \/ ExtractFails /\ UNCHANGED <<exVars, wVars, chVars, paVars>>
    \/ AppendRecord /\ UNCHANGED <<exVars, wVars, chVars, paVars>>
    \/ AddProcessed /\ UNCHANGED <<exVars, wVars, chVars, paVars>>
    \/ CheckRecords /\ UNCHANGED <<exVars, wVars, chVars, paVars>>
    \/ CreateDatabase /\ UNCHANGED <<exVars, wVars, chVars, paVars>>
    \/ CreateDatabaseFails /\ UNCHANGED <<exVars, wVars, chVars, paVars>>
    \/ DeployCheck /\ UNCHANGED <<exVars, wVars, chVars, paVars>>
    \/ DeployNoRepository /\ UNCHANGED <<exVars, wVars, chVars, paVars>>
    \/ DeployCommitFails /\ UNCHANGED <<exVars, wVars, chVars, paVars>>
    \/ DeployCommits /\ UNCHANGED <<exVars, wVars, chVars, paVars>>
    \/ Upload /\ UNCHANGED <<exVars, wVars, chVars, paVars>>
    \/ Final /\ UNCHANGED <<exVars, wVars, chVars, paVars>>

Spec == Init /\ [][Next]_vars

\* extract_email_record on each document of ExDocs.
ExtractInit ==
    /\ RunIdle
    /\ \/ \E text \in ExTexts : \E data \in ExTagMaps :
             ExStart(text, data, "Memo", NoneVal)
       \/ \E text \in {"", "  \n", ExampleText} : \E data \in ExTagMaps :
             \E title \in {"", "Memo"} :
                ExStart(text, data, title, Some(EarlierDate))
       \/ \E text \in ExLongTexts :
             \E data \in { << <<"subject", <<"str", "Tagged">> >> >>,
                            << <<"from", <<"str", "c@z.com">> >> >> } :
                ExStart(text, data, "Memo", NoneVal)
    /\ WriterIdle
    /\ PlannerIdle
    /\ ParseIdle

ExtractNext ==
    \/ ExTags /\ UNCHANGED <<runVars, wVars, chVars, paVars>>
    \/ ExFallback /\ UNCHANGED <<runVars, wVars, chVars, paVars>>
    \/ ExNoFallback /\ UNCHANGED <<runVars, wVars, chVars, paVars>>
    \/ ExBuild /\ UNCHANGED <<runVars, wVars, chVars, paVars>>

SpecExtract == ExtractInit /\ [][ExtractNext]_vars

\* create_database on each list of WriterLists.
WriterSpecInit ==
    /\ RunIdle
    /\ ExIdle
    /\ \E n \in 0..MaxRecords : \E records \in [1..n -> WriterRecords] :
          WriterStart(records)
    /\ PlannerIdle
    /\ ParseIdle

WriterNext ==
    \/ WriterInsert /\ UNCHANGED <<runVars, exVars, chVars, paVars>>
    \/ WriterCommit /\ UNCHANGED <<runVars, exVars, chVars, paVars>>

SpecWriter == WriterSpecInit /\ [][WriterNext]_vars

\* The Chunk Planner on each chunk size and record count.
PlannerSpecInit ==
    /\ RunIdle
    /\ ExIdle
    /\ WriterIdle
    /\ \E chunk_size \in 1..MaxChunkSize : \E total \in 0..MaxRecordCount :
          PlannerStart(chunk_size, total)
    /\ ParseIdle

PlannerNext ==
    \/ PlanRecord /\ UNCHANGED <<runVars, exVars, wVars, paVars>>
    \/ PlanDone /\ UNCHANGED <<runVars, exVars, wVars, paVars>>

SpecChunk == PlannerSpecInit /\ [][PlannerNext]_vars

\* parse_person_string and parse_date_string on each of the inputs.  The
\* person strings: None, empty, blank, the three forms of the docstring, a
\* quoted name, a name of brackets only, separators in the local part,
\* brackets without '@' and an '@' outside any brackets.  The date strings:
\* None, empty, no date, the ISO forms, numeric dates that are or are not
\* ambiguous between month-first and day-first, one that is no date in
\* either order, written forms.  The hints: the default, a day-first
\* format, a format strptime rejects.
ParseSpecInit ==
    /\ RunIdle
    /\ ExIdle
    /\ WriterIdle
    /\ PlannerIdle
    /\ \E person_str \in
            { NoneVal, Some(""), Some("  "),
              Some("Jane Doe <jane@example.com>"), Some("jane.doe@example.com"),
              Some("Jane Doe"), Some(" \"Jane Doe\"  <jane@example.com> "),
              Some("<jane@example.com>"), Some("j_doe.x@example.com"),
              Some("Jane <jane>"), Some("jane@example.com (Jane)") } :
          \E date_str \in
            { NoneVal, Some(""), Some("not a date"),
              Some("2009-05-02T04:00:00.000Z"), Some("2009-05-02"),
              Some("02/03/2009"), Some("13/02/2009"), Some("02/30/2009"),
              Some("May 2, 2009"), Some("Saturday, May 2, 2009 4:05 PM"),
              Some("2 May 2009 ") } :
          \E format_hint \in {"auto", "%d/%m/%Y", "%Q"} :
              ParseStart(person_str, date_str, format_hint)

ParseNext ==
    \/ CallParsePerson /\ UNCHANGED <<runVars, exVars, wVars, chVars>>
    \/ CallParseDate /\ UNCHANGED <<runVars, exVars, wVars, chVars>>

SpecParse == ParseSpecInit /\ [][ParseNext]_vars

(***************************************************************************)
(* Properties of the runs (Spec)                                           *)
(***************************************************************************)

\* The source identifiers of the records of a list.
RecordIds(records) == {records[k].document_id : k \in 1..Len(records)}

\* The identifiers of all documents the source returns.
DocumentIds == {DocTable[documents[k]].id : k \in 1..Len(documents)}

\* C1: at every point of a run, each identifier the run has added to the
\* in-memory checkpoint set belongs to a record that is already in the
\* run's record list, and what an interruption has written to the
\* checkpoint file holds, beyond what the file held at run start, only such
\* identifiers.
C1_AddedAfterRecord ==
    /\ \A d \in added : ("DC_" \o d) \in RecordIds(email_records)
    /\ processed_doc_ids \subseteq FileIds(file_at_start) \cup added
    /\ FileIds(file) \subseteq FileIds(file_at_start) \cup added

\* C1 witness: the run is interrupted in the extraction loop after it has
\* added an identifier, and the handler has written it.
C1_Witness ==
    /\ pc = "extract"
    /\ timed_out
    /\ added # {}
    /\ added \subseteq FileIds(file)
    /\ file # file_at_start

\* C2: over all runs of the collection, no document whose identifier was in
\* the checkpoint file at the start of this or of an earlier run is passed to
\* extraction in this run.
C2_NoReprocessing == extracted \cap done_before = {}

\* C2 witness: a later run that starts from a checkpoint written by an
\* interrupted run and extracts another document.
C2_Witness ==
    /\ run >= 2
    /\ FileIds(file_at_start) # {}
    /\ extracted # {}
    /\ pc = "done"

\* The run in progress was started with a checkpoint file that holds the
\* identifiers of all documents of the input.
StartedComplete ==
    /\ run >= 1
    /\ file_at_start # NoneVal
    /\ DocumentIds \subseteq FileIds(file_at_start)

\* C3: a run started with a checkpoint that holds all identifiers of the
\* input extracts nothing, builds no record, creates no store, deploys and
\* uploads nothing and leaves the checkpoint file as it was, so the next run
\* starts from the same checkpoint.
C3_CompleteCheckpointRun ==
    StartedComplete =>
        /\ extracted = {}
        /\ email_records = <<>>
        /\ db = NoneVal
        /\ sink = sink_at_start
        /\ deployed_url = "unbound"
        /\ ~uploaded
        /\ ~mail_sent
        /\ file = file_at_start
        /\ pc = "done" =>
             message \in {"Collection name is required",
                          "No documents found to process",
                          "All documents already processed!"}

\* C3 witness: the third run on a collection with documents ends as "all
\* processed"; it started from the checkpoint the run before left.
C3_Witness ==
    /\ StartedComplete
    /\ run >= 3
    /\ documents # <<>>
    /\ pc = "done"
    /\ message = "All documents already processed!"

\* C4: as long as the run has not been interrupted, the checkpoint file is
\* what it was when the run started, whatever the run has done and however
\* it ended.
C4_OnlyCleanupWrites == ~timed_out => file = file_at_start

\* C4 witness: a run that was never interrupted has built records, deployed
\* and ended with success; the identifiers it added are not in the file.
C4_Witness ==
    /\ pc = "done"
    /\ ~timed_out
    /\ message = "Open Inbox ready!"
    /\ added # {}
    /\ added \cap FileIds(file) = {}

\* C5: a run that was interrupted and whose store was created (no other
\* failure happened) ends without an exception reaching the handler of
\* main() and without the error status.
C5_InterruptionIsNoError ==
    (pc = "done" /\ timed_out /\ db # NoneVal) => (~raised /\ message # "Error")

\* C20: restore() is idempotent: a second call in a row leaves the set of
\* the first call, and the call leaves the checkpoint file as it was.  In
\* every run it has been called once when the parameters are read, and it
\* is not called again: once before the remaining documents are computed
\* and before any document is extracted.
C20_RestoreOnceAndIdempotent ==
    /\ restore(file, restore(file, processed_doc_ids))
           = restore(file, processed_doc_ids)
    /\ restored = IF pc \in {"idle", "restore"} THEN 0 ELSE 1
    /\ (remaining_documents # <<>> \/ extracted # {}) => restored = 1
    /\ (restored = 1 /\ ~timed_out) => file = file_at_start
    /\ pc = "params" => /\ processed_doc_ids = FileIds(file_at_start)
                        /\ restore(file, processed_doc_ids) = processed_doc_ids

\* A second run has restored the checkpoint of an interrupted run, once,
\* and has extracted another document.
C20_Witness ==
    /\ run = 2
    /\ restored = 1
    /\ FileIds(file_at_start) # {}
    /\ FileIds(file_at_start) \subseteq processed_doc_ids
    /\ extracted # {}
    /\ pc = "done"

(***************************************************************************)
(* Properties of create_database (SpecWriter)                              *)
(***************************************************************************)

\* The last record of the list with the identifier.
LastRecord(records, id) ==
    records[CHOOSE k \in 1..Len(records) :
                /\ records[k].document_id = id
                /\ \A j \in (k + 1)..Len(records) : records[j].document_id # id]

\* The rows of a table with the value v in the column col.
RowsWith(table, col, v) == {k \in 1..Len(table) : table[k][col] = v}

\* C6: when create_database is done, every source identifier of the list
\* has exactly one row in emails and exactly one entry in email_search, both
\* with the values of the last record ingested for it.
C6_OneEntryPerIdentifier ==
    w_pc = "done" =>
        \A id \in RecordIds(w_records) :
            LET last == LastRecord(w_records, id)
                rows == RowsWith(w_store.emails, "document_id", id)
                hits == RowsWith(w_store.email_search, "document_id", id)
            IN  /\ Cardinality(rows) = 1
                /\ \A k \in rows :
                     /\ w_store.emails[k].subject = last.subject
                     /\ w_store.emails[k].sender_email = last.sender_email
                     /\ w_store.emails[k].body = last.body
                     /\ w_store.emails[k].date_sent = StoredDate(last.date_sent, "T")
                /\ Cardinality(hits) = 1
                /\ \A k \in hits :
                     /\ w_store.email_search[k].subject = last.subject
                     /\ w_store.email_search[k].search_content = last.full_text

\* Is the datetime a before the datetime b.
DateBefore(a, b) ==
    \E k \in 1..7 : a[k] < b[k] /\ \A j \in 1..(k - 1) : a[j] = b[j]

LaterOf(a, b) == IF DateBefore(a, b) THEN b ELSE a

\* C7: when create_database is done with two dated records of the same
\* known sender, neither addressed to the sender, the contacts table has
\* one row for the sender, with email_count 2 and last_seen the later of
\* the two dates, whatever the order of the two records.
C7_ContactAggregation ==
    ( /\ w_pc = "done"
      /\ Len(w_records) = 2
      /\ w_records[1].sender_email = w_records[2].sender_email
      /\ ContactCounted(w_records[1].sender_email)
      /\ \A k \in 1..2 : /\ w_records[k].date_sent # NoneVal
                         /\ w_records[k].recipient_email # w_records[k].sender_email )
    => LET rows == RowsWith(w_store.contacts, "email", w_records[1].sender_email)
       IN  /\ Cardinality(rows) = 1
           /\ \A k \in rows :
                /\ w_store.contacts[k].email_count = 2
                /\ w_store.contacts[k].last_seen =
                     StoredDate(Some(LaterOf(w_records[1].date_sent[1],
                                             w_records[2].date_sent[1])), " ")

(***************************************************************************)
(* Properties of the Chunk Planner (SpecChunk)                             *)
(***************************************************************************)

\* C8: when the planner is done with N records and chunk size C, the
\* directory has ceil(N/C) chunks; chunk k has id k - 1 and starts right
\* after chunk k - 1 ends, the first starts at 1 and the last ends at N;
\* every chunk but the last holds C ordinals and the last from 1 to C; each
\* ordinal o lies in exactly one chunk, the one with id (o - 1) div C.
C8_ChunksPartition ==
    ch_pc = "done" =>
        LET n == Len(ch_chunks)
            size(k) == ch_chunks[k].end - ch_chunks[k].start + 1
        IN  /\ n * ch_size >= ch_total
            /\ (n - 1) * ch_size < ch_total
            /\ n > 0 => ch_chunks[1].start = 1 /\ ch_chunks[n].end = ch_total
            /\ \A k \in 1..n :
                 /\ ch_chunks[k].chunk_id = k - 1
                 /\ k > 1 => ch_chunks[k].start = ch_chunks[k - 1].end + 1
                 /\ k < n => size(k) = ch_size
                 /\ size(k) \in 1..ch_size
            /\ Len(ch_assigned) = ch_total
            /\ \A o \in 1..ch_total :
                 /\ ch_assigned[o] = (o - 1) \div ch_size
                 /\ \A k \in 1..n :
                      (ch_chunks[k].start <= o /\ o <= ch_chunks[k].end)
                          <=> ch_chunks[k].chunk_id = ch_assigned[o]

\* C8 witness: a plan of several chunks whose last chunk is shorter.
C8_Witness ==
    /\ ch_pc = "done"
    /\ ch_size > 1
    /\ ch_total > 2 * ch_size
    /\ ch_total % ch_size # 0
    /\ Len(ch_chunks) = (ch_total \div ch_size) + 1

(***************************************************************************)
(* Properties of extract_email_record (SpecExtract)                        *)
(***************************************************************************)

\* C9: when extract_email_record is done, the regex fallback was used only
\* if Step 1 found none of sender, recipient, subject and date in the tags,
\* and every value Step 1 found in the tags is the value of the record.
C9_TagsWin ==
    ex_pc = "done" =>
        LET t == ex_tag_fields
            r == ex_record[1]
        IN  /\ ex_regex_used =>
                 /\ ~Truthy(t.sender_email) /\ ~Truthy(t.sender_name)
                 /\ ~Truthy(t.recipient_email) /\ ~Truthy(t.recipient_name)
                 /\ ~Truthy(t.subject)
                 /\ t.date_sent = NoneVal
            /\ Truthy(t.sender_email) => r.sender_email = t.sender_email[1]
            /\ Truthy(t.sender_name) => r.sender_name = t.sender_name[1]
            /\ Truthy(t.recipient_email) => r.recipient_email = t.recipient_email[1]
            /\ Truthy(t.recipient_name) => r.recipient_name = t.recipient_name[1]
            /\ Truthy(t.subject) => r.subject = t.subject[1]
            /\ t.date_sent # NoneVal => r.date_sent = t.date_sent

\* Group 1 of the first pattern of the list, in its order, that matches the
\* text, stripped; None when no pattern matches.
FirstCapture(text, patterns) ==
    LET ok == {k \in 1..Len(patterns) : Search(text, patterns[k]) # NoneVal}
    IN  IF ok = {} THEN NoneVal
        ELSE LET first == CHOOSE k \in ok : \A j \in ok : k <= j
             IN  Some(Strip(Search(text, patterns[first])[1]))

\* The part of a string before its first semicolon, stripped.
BeforeSemicolon(v) ==
    LET semis == {k \in 1..Len(v) : At(v, k) = ";"}
    IN  IF semis = {} THEN v
        ELSE Strip(SubSeq(v, 1, (CHOOSE k \in semis : \A j \in semis : k <= j) - 1))

\* An absent or empty value counts as no value.
NonEmpty(o) == IF o = NoneVal \/ o = Some("") THEN NoneVal ELSE o

\* C10: when extract_email_record is done on a document without tags, the
\* fallback was used; sender, recipient and subject of the record come from
\* the first 2000 characters of the text alone, each from the first pattern
\* of its priority list that matches there, the recipient cut at its first
\* semicolon; the example text gives a@x.com, b@y.com and Hi; headers that
\* start after the first 2000 characters give nothing.
C10_RegexFallback ==
    (ex_pc = "done" /\ ex_doc.data = <<>>) =>
        LET text == DocText(ex_doc)
            slice == IF Len(text) <= HeaderSliceLen THEN text
                     ELSE SubSeq(text, 1, HeaderSliceLen)
            from == NonEmpty(FirstCapture(slice, FromPatterns))
            to_all == FirstCapture(slice, ToPatterns)
            to == NonEmpty(IF to_all = NoneVal THEN NoneVal
                           ELSE Some(BeforeSemicolon(to_all[1])))
            subject == NonEmpty(FirstCapture(slice, SubjectPatterns))
            r == ex_record[1]
        IN  /\ ex_regex_used
            /\ ex_fields = FallbackFields(ex_tag_fields, slice, "auto")
            /\ r.sender_email = OrElse(parse_person_string(from)[1], UnknownEmail)
            /\ r.recipient_email = OrElse(parse_person_string(to)[1], UnknownEmail)
            /\ r.subject = OrElse(subject, IF ex_doc.title # "" THEN ex_doc.title
                                            ELSE "Document " \o ex_doc.id)
            /\ ~Contains(r.recipient_email, ";")
            /\ text = ExampleText =>
                 /\ r.sender_email = "a@x.com"
                 /\ r.recipient_email = "b@y.com"
                 /\ r.subject = "Hi"
            /\ text = OtherText => r.recipient_email = "f@u.com"
            /\ text = SenderFirstText =>
                 r.sender_email = "a@x.com" /\ r.subject = "Hi"
            /\ text = PaddedText(HeaderSliceLen) =>
                 r.sender_email = UnknownEmail /\ r.subject = "Memo"

\* C10 witness: the example text, without tags, has gone through the
\* fallback and the record is built.
C10_Witness ==
    /\ ex_pc = "done"
    /\ ex_doc.data = <<>>
    /\ ex_doc.full_text = ExampleText
    /\ ex_regex_used
    /\ ex_record[1].sender_email = "a@x.com"

\* C21: every record extract_email_record builds has a subject that is not
\* empty: the value found in the tags or the text, else the title of the
\* document, else "Document " and its id.  Sender and recipient address and
\* name are not empty: the value found, else the sentinel address, "Unknown
\* Sender" and "Unknown Recipient".  The date is the one found, else the
\* creation timestamp of the document.
C21_DefaultsApplied ==
    ex_pc = "done" =>
        LET r == ex_record[1]
            f == ex_fields
            found(o) == o # NoneVal /\ o # Some("")
        IN  /\ r.subject # ""
            /\ r.sender_email # "" /\ r.sender_name # ""
            /\ r.recipient_email # "" /\ r.recipient_name # ""
            /\ r.subject = IF found(f.subject) THEN f.subject[1]
                           ELSE IF ex_doc.title # "" THEN ex_doc.title
                           ELSE "Document 7"
            /\ r.sender_email = IF found(f.sender_email) THEN f.sender_email[1]
                                ELSE "unknown@documentcloud.org"
            /\ r.sender_name = IF found(f.sender_name) THEN f.sender_name[1]
                               ELSE "Unknown Sender"
            /\ r.recipient_email = IF found(f.recipient_email)
                                   THEN f.recipient_email[1]
                                   ELSE "unknown@documentcloud.org"
            /\ r.recipient_name = IF found(f.recipient_name)
                                  THEN f.recipient_name[1]
                                  ELSE "Unknown Recipient"
            /\ r.date_sent = IF f.date_sent # NoneVal THEN f.date_sent
                             ELSE ex_doc.created_at
            /\ (ex_doc.data = <<>> /\ Strip(ex_doc.full_text) = "") =>
                  /\ r.subject = IF ex_doc.title = "" THEN "Document 7" ELSE ex_doc.title
                  /\ r.sender_email = "unknown@documentcloud.org"
                  /\ r.sender_name = "Unknown Sender"
                  /\ r.recipient_email = "unknown@documentcloud.org"
                  /\ r.recipient_name = "Unknown Recipient"
                  /\ r.date_sent = ex_doc.created_at
            /\ ex_doc.data = << <<"from", <<"str", "<c@z.com>">> >> >> =>
                  r.sender_email = "c@z.com" /\ r.sender_name = "Unknown Sender"

\* C21 witness: a document without title and text whose tags have empty
\* values gets every default.
C21_Witness ==
    /\ ex_pc = "done"
    /\ ex_doc.title = ""
    /\ ex_doc.full_text = ""
    /\ Len(ex_doc.data) = 4
    /\ ex_record[1].subject = "Document 7"
    /\ ex_record[1].sender_name = "Unknown Sender"
    /\ ex_record[1].recipient_email = "unknown@documentcloud.org"
    /\ ex_record[1].date_sent = Some(EarlierDate)

\* Does the string s end with the string tail.
EndsWith(s, tail) ==
    Len(s) >= Len(tail) /\ SubSeq(s, Len(s) - Len(tail) + 1, Len(s)) = tail

\* The statement of C22 about the record built from the text t of length
\* L: the body is t when L <= 50000 and else the first 50000 characters of
\* t and the truncation notice with the link to the original; the notice is
\* there exactly when the text was truncated; the search text is the first
\* min(L, 100000) characters of t and is not shorter than the part of the
\* body taken from t.
Truncated(r, t) ==
    LET L == Len(t)
        notice == "\n\n[Document truncated. Full text available at: "
                      \o "https://www.documentcloud.org/documents/7]"
        min(a, b) == IF a <= b THEN a ELSE b
    IN  /\ L <= 50000 => r.body = t
        /\ L > 50000 => r.body = SubSeq(t, 1, 50000) \o notice
        /\ EndsWith(r.body, notice) <=> L > 50000
        /\ r.full_text = SubSeq(t, 1, min(L, 100000))
        /\ Len(r.full_text) >= min(L, 50000)

\* C22 as stated: for every document text, the body and the search text of
\* the record are cut from the text of the document as Truncated says.
C22_TruncationOfDocumentText ==
    ex_pc = "done" => Truncated(ex_record[1], ex_doc.full_text)

\* C22 amended: for every document text that is not blank, the body and the
\* search text of the record are cut from the text of the document as
\* Truncated says; for a blank text they are cut in the same way from the
\* placeholder "[Document {id} - {title}]\n\nNo text content available.".
C22_TruncationOfNonBlankText ==
    ex_pc = "done" =>
        Truncated(ex_record[1],
                  IF \A k \in 1..Len(ex_doc.full_text) :
                        IsSpace(At(ex_doc.full_text, k))
                  THEN "[Document 7 - " \o ex_doc.title
                           \o "]\n\nNo text content available."
                  ELSE ex_doc.full_text)

\* C22 witness: a text of 100001 characters has been cut to a body of 50000
\* characters and the notice, and to a search text of 100000 characters.
C22_Witness ==
    /\ ex_pc = "done"
    /\ Len(ex_doc.full_text) = 100001
    /\ Len(ex_record[1].full_text) = 100000
    /\ Len(ex_record[1].body) = 50089
    /\ SubSeq(ex_record[1].body, 50001, 50030) = "\n\n[Document truncated. Full te"

\* The identifiers of the first n documents of the remaining work list.
FirstIds(n) == {DocTable[remaining_documents[k]].id : k \in 1..n}

\* C13: a step of the extraction loop that is neither the interruption
\* handler nor a successful extraction (the extraction of document i has
\* failed) adds nothing to the record list and to the checkpoint set, raises
\* nothing into main() and goes on with document i + 1, or leaves the loop
\* after the last document; and at every point of the loop the documents
\* passed to extraction so far are exactly those before the current one,
\* all of them once the loop has ended.
C13_FailureSkipsOneDocument ==
    /\ [](/\ pc = "extract" => extracted = FirstIds(i - 1)
          /\ pc \in {"append", "add"} => extracted = FirstIds(i)
          /\ pc \in {"check_records", "create_database", "deploy_check"} =>
                extracted = FirstIds(Len(remaining_documents)))
    /\ [][(pc = "extract" /\ timed_out' = timed_out /\ pc' # "append") =>
             /\ email_records' = email_records
             /\ processed_doc_ids' = processed_doc_ids
             /\ added' = added
             /\ raised' = raised
             /\ IF i < Len(remaining_documents)
                THEN pc' = "extract" /\ i' = i + 1
                ELSE pc' = "check_records"]_vars

\* C13 witness: the first of two different documents failed, the second
\* was extracted and its record appended; only the second is added.
C13_Witness ==
    /\ pc = "check_records"
    /\ Len(remaining_documents) = 2
    /\ remaining_documents[1] # remaining_documents[2]
    /\ Len(email_records) = 1
    /\ added = {DocTable[remaining_documents[2]].id}
    /\ extracted = FirstIds(2)

(***************************************************************************)
(* Properties of parse_date_string and parse_person_string (SpecParse)     *)
(***************************************************************************)

\* C11: when parse_date_string has returned, its result is what strptime
\* gives for the first format, in the order hint (unless 'auto') then fixed
\* list, that parses the string, and None when the string is absent, empty
\* or parsed by no format; 02/03/2009 is February 3 unless the hint asks
\* for day-first, 13/02/2009 is February 13, the ISO example is 2009-05-02
\* 04:00:00 and 'not a date' is None.
C11_FirstFormatWins ==
    pa_pc = "done" =>
        LET tried == IF pa_hint = "auto" THEN DateFormats
                     ELSE <<pa_hint>> \o DateFormats
            ok == IF ~Truthy(pa_date_str) THEN {}
                  ELSE {k \in 1..Len(tried) :
                           Strptime(pa_date_str[1], tried[k]) # NoneVal}
            midnight(y, m, d) == Some(<<y, m, d, 0, 0, 0, 0>>)
        IN  /\ ok = {} => pa_date = NoneVal
            /\ ok # {} =>
                 pa_date = Strptime(pa_date_str[1],
                                    tried[CHOOSE k \in ok : \A j \in ok : k <= j])
            /\ pa_date_str = Some("2009-05-02T04:00:00.000Z") =>
                 pa_date = Some(<<2009, 5, 2, 4, 0, 0, 0>>)
            /\ pa_date_str = Some("not a date") => pa_date = NoneVal
            /\ pa_date_str = Some("02/03/2009") =>
                 pa_date = IF pa_hint = "%d/%m/%Y" THEN midnight(2009, 3, 2)
                           ELSE midnight(2009, 2, 3)
            /\ pa_date_str = Some("13/02/2009") => pa_date = midnight(2009, 2, 13)
            /\ pa_date_str = Some("02/30/2009") => pa_date = NoneVal

\* C11 witness: the ambiguous numeric date was parsed with the day-first
\* hint, which won over the month-first format of the list.
C11_Witness ==
    /\ pa_pc = "done"
    /\ pa_date_str = Some("02/03/2009")
    /\ pa_hint = "%d/%m/%Y"
    /\ pa_date = Some(<<2009, 3, 2, 0, 0, 0, 0>>)

\* The positions of a '<' from which the stripped text t reads
\* '<...@...>' up to its end, with no '>' before the last character and
\* no line break before the '<'.
AnglePositions(t) ==
    {j \in 1..Len(t) :
        /\ At(t, j) = "<"
        /\ At(t, Len(t)) = ">"
        /\ \A k \in (j + 1)..(Len(t) - 1) : At(t, k) # ">"
        /\ \E a \in (j + 2)..(Len(t) - 2) : At(t, a) = "@"
        /\ \A k \in 1..(j - 1) : At(t, k) # "\n"}

\* C12: when parse_person_string has returned, its result falls in one of
\* four cases decided by the input alone: absent or empty gives (None,
\* None); 'Name <email>' gives the text in the brackets and the text before
\* them without surrounding blanks and quotes; other text with '@' gives
\* the stripped text as email and a name made from the part before '@';
\* other text gives (None, stripped text).  The three examples give
\* (jane@example.com, Jane Doe), (jane.doe@example.com, Jane Doe) and
\* (None, Jane Doe).
C12_FourCases ==
    pa_pc \in {"date", "done"} =>
        LET t == IF pa_person_str = NoneVal THEN "" ELSE Strip(pa_person_str[1])
            angles == AnglePositions(t)
            first == CHOOSE j \in angles : \A k \in angles : j <= k
        IN  /\ ~Truthy(pa_person_str) => pa_person = <<NoneVal, NoneVal>>
            /\ (Truthy(pa_person_str) /\ angles # {}) =>
                 /\ pa_person[1] = Some(Strip(SubSeq(t, first + 1, Len(t) - 1)))
                 /\ pa_person[2] =
                      Some(StripChars(Strip(SubSeq(t, 1, first - 1)), {"\""}))
            /\ (Truthy(pa_person_str) /\ angles = {} /\ Contains(t, "@")) =>
                 /\ pa_person[1] = Some(t)
                 /\ pa_person[2] = Some(TitleFrom(SplitFirst(t, "@"), 1, FALSE))
            /\ (Truthy(pa_person_str) /\ angles = {} /\ ~Contains(t, "@")) =>
                 pa_person = <<NoneVal, Some(t)>>
            /\ pa_person_str = Some("Jane Doe <jane@example.com>") =>
                 pa_person = <<Some("jane@example.com"), Some("Jane Doe")>>
            /\ pa_person_str = Some("jane.doe@example.com") =>
                 pa_person = <<Some("jane.doe@example.com"), Some("Jane Doe")>>
            /\ pa_person_str = Some("j_doe.x@example.com") =>
                 pa_person[2] = Some("J Doe X")
            /\ pa_person_str = Some("Jane Doe") =>
                 pa_person = <<NoneVal, Some("Jane Doe")>>

\* C12 witness: the quoted name with an address in brackets was parsed.
C12_Witness ==
    /\ pa_pc = "done"
    /\ pa_person_str = Some(" \"Jane Doe\"  <jane@example.com> ")
    /\ pa_person = <<Some("jane@example.com"), Some("Jane Doe")>>

\* C16: no row of emails has a column for the body or the search text of
\* its record, and the entries of email_search are built from sender and
\* recipient names and addresses, subject and preview only (document_id is
\* the key of the entry).
C16_NoFullContentInStore ==
    /\ \A k \in 1..Len(w_store.emails) :
          DOMAIN w_store.emails[k]
              \cap {"body", "full_text", "search_content"} = {}
    /\ \A k \in 1..Len(w_store.email_search) :
          DOMAIN w_store.email_search[k]
              \subseteq {"document_id", "sender_name", "sender_email",
                         "recipient_name", "recipient_email", "subject", "preview"}

\* C24: when create_database is done, the record_count of the collection
\* descriptor row is the number of rows of emails and the number of entries
\* of email_search.
C24_RecordCountMatchesTables ==
    w_pc = "done" =>
        /\ w_store.collection_info.record_count = Len(w_store.emails)
        /\ w_store.collection_info.record_count = Len(w_store.email_search)

(***************************************************************************)
(* Properties of the deployment (Spec)                                     *)
(***************************************************************************)

\* C14: a run that reached the deployment and did not commit its store to
\* the sink ends with the partial-failure status, which is not the status of
\* a run without records; it does not end with the success status and sends
\* no completion notification.
C14_FailedDeploymentReported ==
    (pc = "done" /\ deployed_url # "unbound" /\ ~committed)
        => /\ message = "Deployment failed. Database available for download."
           /\ message # "No valid email records could be extracted"
           /\ message # "Open Inbox ready!"
           /\ ~mail_sent

\* C15: a store committed to the sink passed the validation of its row
\* count: the emails table has as many rows as records were expected.
C15_DeployedStoreHasExpectedRows ==
    committed => /\ db # NoneVal
                 /\ Len(db[1].emails) = Len(email_records)
                 /\ Len(db[1].emails) = db[1].collection_info.record_count

\* C17: a run in which create_database failed has pushed nothing to the
\* sink (no store file, no index update), has not reported success and has
\* sent no notification.
C17_StoreFailureIsFatal ==
    (pc = "done" /\ raised /\ db = NoneVal /\ email_records # <<>>)
        => /\ sink = sink_at_start
           /\ ~committed
           /\ deployed_url = "unbound"
           /\ message = "Error"
           /\ ~mail_sent

\* A second run fails in create_database after the first one deployed.
C17_Witness ==
    /\ pc = "done"
    /\ raised
    /\ db = NoneVal
    /\ email_records # <<>>
    /\ run = 2
    /\ sink.files # {}
    /\ sink = sink_at_start

\* C18: the collection index, built up from an absent one, never has two
\* entries with the same collection id and is ordered by creation time,
\* newest first; the index changes only in a deployment whose collection
\* id it does not hold yet (an update with an id that is present writes
\* nothing) and that committed its store, by the entry of that store.
C18_IndexDeduplicatedAndSorted ==
    /\ [](\A j, k \in 1..Len(sink.index) :
            j < k => /\ sink.index[j].id # sink.index[k].id
                     /\ sink.index[j].created >= sink.index[k].created)
    /\ [][sink'.index # sink.index
             => /\ pc = "deploy"
                /\ \A k \in 1..Len(sink.index) :
                      sink.index[k].id # collection_id \o "_" \o safe_collection_name
                /\ committed'
                /\ DatabaseName(collection_id, safe_collection_name) \in sink'.files
                /\ Len(sink'.index) = Len(sink.index) + 1
                /\ \E k \in 1..Len(sink'.index) :
                      /\ sink'.index[k].id = collection_id \o "_" \o safe_collection_name
                      /\ sink'.index[k].filename
                             = DatabaseName(collection_id, safe_collection_name)
                      /\ sink'.index[k].emailCount = Len(email_records)]_vars

\* The third deployment commits a store whose collection id the index of
\* two entries holds already.
C18_Witness ==
    /\ run = 3
    /\ committed
    /\ Len(sink.index) = 2
    /\ sink.index[1].created > sink.index[2].created
    /\ sink.index = sink_at_start.index
    /\ \E k \in 1..2 : sink.index[k].id = collection_id \o "_" \o safe_collection_name

\* C19: a run whose interruption handler ran before the deployment step
\* was reached deploys nothing: the files of the sink and the collection
\* index stay as they were when the run started.
C19_EarlyInterruptionNoDeployment ==
    cleanup_at = "early" => /\ sink = sink_at_start
                            /\ ~committed
                            /\ pc \notin {"deploy", "upload"}
                            /\ deployed_url = "unbound"

\* The handler ran during the extraction loop of a second run, which has
\* built its store and ended; the first run had deployed.
C19_Witness ==
    /\ cleanup_at = "early"
    /\ pc = "done"
    /\ db # NoneVal
    /\ run = 2
    /\ sink.files # {}
    /\ sink = sink_at_start

\* C23: no record is lost by interruption and resumption.  When a run has
\* ended, every document it has put into the checkpoint file has its record
\* in the store this run created; as this holds for each of the runs, every
\* document of the checkpoint has its record in a store of one of them.
C23_CheckpointedRecordsStored ==
    pc = "done" =>
        \A id \in FileIds(file) \ FileIds(file_at_start) :
            /\ db # NoneVal
            /\ \E k \in 1..Len(db[1].emails) :
                  db[1].emails[k].document_id = "DC_" \o id

====
